---- MODULE Spec2Model ----
(***************************************************************************)
(* The Wayland events loop of winit                                        *)
(* (src/platform/linux/wayland/event_loop.rs): the EventsLoopSink, the     *)
(* EventsLoop entry points run_forever and poll_events, the post-dispatch  *)
(* triggers, the cross-thread EventsLoopProxy::wakeup, and the pointer     *)
(* implementation with its scroll accumulation.                            *)
(*                                                                         *)
(* Threads: one loop thread (pc), and the threads of Wakers, each holding  *)
(* a clone of an EventsLoopProxy (wpc).  Protocol callbacks run on the     *)
(* loop thread, inside a dispatch call.                                    *)
(*                                                                         *)
(* Scroll values are f64/f32 (continuous) and i32 (discrete) in the        *)
(* source; the model draws them from small integer sets, on which the      *)
(* float sums are exact and the i32 sums do not overflow.                  *)
(***************************************************************************)
EXTENDS Integers, Sequences, FiniteSets, TLC

\* ---------------------------------------------------------------- bounds
\* a pointer callback runs only while the sink holds fewer events than this
MaxSink == 1
\* axis / axis_discrete callbacks between two frame callbacks
MaxAxis == 2
\* pointer callbacks recorded in the trail
MaxTrail == 4
\* capabilities announcements of the seat
MaxCaps == 3
\* events another holder of the sink pushes while the sink holds fewer
MaxBuffered == 2
\* globals the server announces
MaxGlobals == 3

\* ------------------------------------------------------------ input sets
\* threads holding a clone of the EventsLoopProxy; each calls wakeup() once (a
\* second call of a thread is the call of another thread), and the threads
\* are numbered in the order of their calls
Wakers == {1, 2}
\* wl_surface objects the compositor may name; surface s belongs to window s
Surfaces == {1, 2}
\* pointer positions (x, y)
Positions == {<<3, 4>>}
\* raw protocol scroll values (continuous and discrete)
AxisValues == {-1, 2}
Axes == {"VerticalScroll", "HorizontalScroll"}
\* wl_pointer button codes: BTN_LEFT and BTN_SIDE, one the match of lines
\* 599-605 knows and one it does not
ButtonCodes == {272, 275}
ButtonStates == {"Pressed"}
\* wl_pointer versions: below and at the version that introduced frame
PointerVersions == {4, 5}
\* interfaces of the globals: the shells and the seat the code looks for and
\* one it does not; the outputs with the shell the construction needs
ShellInterfaces == {"zxdg_shell_v6", "wl_shell", "wl_seat", "wl_compositor"}
MonitorInterfaces == {"wl_output", "wl_shell"}
\* the size a configure event asks for
WindowSizes == {<<640, 480>>}
\* what geometry, mode and scale events carry
OutputPositions == {<<10, 0>>}
OutputSizes == {<<800, 600>>}
OutputScales == {2}
\* wl_seat::Capability
Capability == {"Pointer", "Keyboard", "Touch"}
ControlFlows == {"Continue", "Break"}
TouchPhases == {"Started", "Moved", "Ended", "Cancelled"}

\* Option<T>: None, and Some(v) kept as v
None == <<>>
\* Option<WindowId>: no window
NoWid == 0
\* the elements of a sequence
Range(f) == {f[i] : i \in DOMAIN f}

VARIABLES
    \* ---- EventsLoop and the loop thread
    pc,                 \* position of the loop thread
    site,               \* which call of post_dispatch_triggers / empty_with is running
    sink,               \* EventsLoopSink.buffer
    pending_wakeup,     \* the AtomicBool behind EventsLoop.pending_wakeup
    control_flow,       \* the Cell of run_forever
    dispatched,         \* the current dispatch call has run a callback
    cleanup_needed,     \* EventsLoop.cleanup_needed
    store,              \* the WindowStore: a sequence of windows
    \* ---- the connection
    connOk,             \* the socket is usable
    outbuf,             \* sync requests written to the display's buffer, not flushed
    wire,               \* sync requests sent whose done event has not been dispatched
    \* ---- EventsLoopProxy::wakeup, one call per waker thread at a time
    wpc,                \* position of each waker in wakeup()
    wres,               \* result of each waker's last finished call
    \* ---- PointerIData
    version,            \* pointer.version()
    mouse_focus,
    axis_buffer,
    axis_discrete_buffer,
    axis_state,
    \* ---- history (not program state)
    batch,              \* the sink's content when the running empty_with began
    delivered,          \* the events the running empty_with has given to the callback
    nStored,            \* wakeup() calls that have stored the flag
    nOk,                \* wakeup() calls that have returned Ok
    nAwakened,          \* Awakened events pushed
    wLate,              \* per waker: the running/last call began after the loop was dropped
    wAwait,             \* per waker: "waiting" once its call has stored the flag while the loop
                        \*   was blocked in run_forever, "served" once an Awakened is delivered;
                        \*   "stored" and then "seen" when the loop was anywhere else
    rawH,               \* sum of the raw horizontal / vertical values of the continuous
    rawV,               \*   axis callbacks of the current batch (since the frame before it)
    rawDH,              \* the same for the axis_discrete callbacks
    rawDV,
    nAxis,              \* axis and axis_discrete callbacks of the batch
    nDisc,              \* axis_discrete callbacks of the batch
    steady,             \* mouse_focus has not changed since the first of them
    stopped,            \* an axis_stop has run and no axis or axis_discrete callback since
    discarded,          \* the last frame pushed the discrete buffer and dropped a continuous one
    \* ---- the mutexes: "free", or the thread holding the lock
    sink_lock,          \* Mutex<EventsLoopSink>
    cleanup_lock,       \* Mutex<bool> of cleanup_needed
    \* ---- SeatIData and the objects of the seat
    seat_pointer,       \* SeatIData.pointer: NoObject or the wl_pointer
    seat_keyboard,      \* SeatIData.keyboard: NoObject or the wl_keyboard
    requested,          \* every wl_pointer / wl_keyboard the callback has requested and registered
    live,               \* those of them that have not been released
    lastCaps,           \* the capabilities of the last announcement, {} before the first
    nCaps,              \* capabilities announcements so far
    \* ---- EnvHandler and StateContext
    globals,            \* env.globals(): the advertised globals, in the order announced
    nGlobals,           \* globals announced so far (the server names them 1, 2, ...)
    shell,              \* StateContext.shell
    seat,               \* StateContext.seat: NoSeat or the name of the global bound
    monitors,           \* StateContext.monitors: references to OutputInfo objects
    infos,              \* the OutputInfo objects, by reference
    handles,            \* references held by the MonitorId handles given out
    atRemoval,          \* <<reference, OutputInfo>> when del_global dropped the reference
    atHandle,           \* <<reference, scale>> get_hidpi_factor gave when the first handle was given out
    winShell,           \* the shell variant the last create_window used
    pruned,             \* the windows the last prune of post_dispatch_triggers dropped
    trail,              \* the pointer callbacks run so far, oldest first, when they are recorded
    out                 \* every event those callbacks have pushed, in the order pushed

loopVars == <<pc, site, sink, pending_wakeup, control_flow, dispatched, cleanup_needed, store>>
connVars == <<connOk, outbuf, wire>>
wakerVars == <<wpc, wres>>
pointerVars == <<version, mouse_focus, axis_buffer, axis_discrete_buffer, axis_state>>
drainHist == <<batch, delivered>>
wakeHist == <<nStored, nOk, nAwakened, wLate, wAwait>>
axisHist == <<rawH, rawV, rawDH, rawDV, nAxis, nDisc, steady, stopped, discarded>>
focusHist == <<trail, out>>
lockVars == <<sink_lock, cleanup_lock>>
windowHist == <<pruned>>
seatVars == <<seat_pointer, seat_keyboard, requested, live, lastCaps, nCaps>>
registryVars == <<globals, nGlobals, shell, seat, winShell>>
monitorVars == <<monitors, infos, handles, atRemoval, atHandle>>
contextVars == <<seatVars, registryVars, monitorVars>>
vars == <<loopVars, connVars, wakerVars, pointerVars, drainHist, wakeHist, axisHist, focusHist,
          lockVars, contextVars, windowHist>>

\* ---------------------------------------------------------------- events
\* ::Event values, all with the same fields so that any two compare
Ev(type, wid, x, y, kind, phase) ==
    [type |-> type, wid |-> wid, x |-> x, y |-> y, kind |-> kind, phase |-> phase]

Awakened == Ev("Awakened", NoWid, 0, 0, "", "")

\* ------------------------------------------------------- EventsLoopSink
\* send_event: wraps the window event with its window id and pushes it
send_event(buf, evt, wid) == Append(buf, [evt EXCEPT !.wid = wid])

\* a send_raw_event that pushes at the front of the buffer
send_raw_event_front(buf, evt) == <<evt>> \o buf

\* send_raw_event: pushes the event as it is
send_raw_event(buf, evt) == Append(buf, evt)

\* ---------------------------------------------------------- WindowStore
\* One window of the store: its id (the id of its surface), the pending new
\* size, the refresh and closed flags, whether its decorated surface is live
\* and whether its handle was released (the window is dead), and the size of
\* its decorated surface.
Window(wid) ==
    [wid |-> wid, newsize |-> None, refresh |-> FALSE, closed |-> FALSE,
     decorated |-> TRUE, dead |-> FALSE, size |-> <<0, 0>>]

\* WindowStore::find_wid: the window of a surface, if the store has one
find_wid(st, surface) ==
    IF \E i \in 1..Len(st) : st[i].wid = surface THEN surface ELSE NoWid

\* WindowStore::cleanup: prune the dead windows
cleanup(st) == SelectSeq(st, LAMBDA w : ~w.dead)

\* a closure that pushes Refresh before Resized
WindowTriggers_refresh_first(buf, w) ==
    LET b1 == IF w.refresh THEN send_event(buf, Ev("Refresh", NoWid, 0, 0, "", ""), w.wid) ELSE buf
        b2 == IF w.newsize # None /\ w.decorated
              THEN send_event(b1, Ev("Resized", NoWid, w.newsize[1], w.newsize[2], "", ""), w.wid)
              ELSE b1
    IN  IF w.closed THEN send_event(b2, Ev("Closed", NoWid, 0, 0, "", ""), w.wid) ELSE b2

\* the closure post_dispatch_triggers gives to for_each, for one window: the
\* events it pushes
WindowTriggers(buf, w) ==
    LET b1 == IF w.newsize # None /\ w.decorated
              THEN send_event(buf, Ev("Resized", NoWid, w.newsize[1], w.newsize[2], "", ""), w.wid)
              ELSE buf
        b2 == IF w.refresh THEN send_event(b1, Ev("Refresh", NoWid, 0, 0, "", ""), w.wid) ELSE b1
    IN  IF w.closed THEN send_event(b2, Ev("Closed", NoWid, 0, 0, "", ""), w.wid) ELSE b2

\* WindowStore::for_each: the closure on every window, in the store's order
RECURSIVE for_each(_, _)
for_each(buf, st) ==
    IF st = <<>> THEN buf ELSE for_each(WindowTriggers(buf, Head(st)), Tail(st))

\* the closure, lines 348-350: decorated.resize(w, h) on every window that
\* has a pending size and a live decorated surface
ResizeSurfaces(st) ==
    [i \in 1..Len(st) |->
        IF st[i].newsize # None /\ st[i].decorated
        THEN [st[i] EXCEPT !.size = st[i].newsize]
        ELSE st[i]]

\* for_each takes the pending size and resets the flags it has yielded
ClearFlags(st) ==
    [i \in 1..Len(st) |-> [st[i] EXCEPT !.newsize = None, !.refresh = FALSE, !.closed = FALSE]]

\* ------------------------------------------------------------ the loop
InDispatch == pc \in {"rf_dispatch", "pe_dispatch"}
InRunForever == site \in {"rf_pre", "rf_loop"} /\ pc \notin {"idle", "dropping", "dropped"}

\* display.flush(): every buffered request goes to the server
FlushOut == /\ wire' = wire + outbuf
            /\ outbuf' = 0
            /\ UNCHANGED connOk

\* The socket may fail at any time; the program sees it at its next flush,
\* read or dispatch, so the failure is drawn there: an operation on a usable
\* connection succeeds or finds it broken, and a broken one stays broken.
Outcomes == IF connOk THEN {TRUE, FALSE} ELSE {FALSE}

\* run_forever, lines 189-202: flush, fresh control_flow, then the first
\* post_dispatch_triggers
RunForever ==
    /\ pc = "idle"
    /\ \E ok \in Outcomes :
          IF ok
          THEN /\ FlushOut
               /\ pc' = "pdt_load"
               /\ site' = "rf_pre"
          ELSE /\ pc' = "panicked"
               /\ connOk' = FALSE
               /\ UNCHANGED <<site, outbuf, wire>>
    /\ control_flow' = "Continue"
    /\ UNCHANGED <<sink, pending_wakeup, dispatched, cleanup_needed, store, wakerVars,
                   pointerVars, drainHist, wakeHist, axisHist>>
    /\ UNCHANGED focusHist
    /\ UNCHANGED lockVars
    /\ UNCHANGED contextVars
    /\ UNCHANGED windowHist

\* poll_events, lines 168-175: flush, then the first empty_with
PollEvents ==
    /\ pc = "idle"
    /\ \E ok \in Outcomes :
          IF ok
          THEN /\ FlushOut
               /\ sink_lock = "free"
               /\ sink_lock' = "loop"
               /\ pc' = "drain"
               /\ site' = "pe_pre"
               /\ batch' = sink
          ELSE /\ pc' = "panicked"
               /\ connOk' = FALSE
               /\ UNCHANGED <<site, outbuf, wire, batch, sink_lock>>
    /\ delivered' = <<>>
    /\ UNCHANGED <<sink, pending_wakeup, control_flow, dispatched, cleanup_needed, store,
                   wakerVars, pointerVars, wakeHist, axisHist>>
    /\ UNCHANGED <<focusHist, cleanup_lock>>
    /\ UNCHANGED contextVars
    /\ UNCHANGED windowHist

\* a pass that clears the flag whether it found it set or not
PDT_Load_clearing ==
    /\ pc = "pdt_load"
    /\ sink_lock = "free"
    /\ sink_lock' = "loop"
    /\ IF pending_wakeup
       THEN /\ sink' = send_raw_event(sink, Awakened)
            /\ nAwakened' = nAwakened + 1
       ELSE UNCHANGED <<sink, nAwakened>>
    /\ pc' = "pdt_clear"
    /\ UNCHANGED <<site, pending_wakeup, control_flow, dispatched, cleanup_needed, store,
                   connVars, wakerVars, pointerVars, drainHist, nStored, nOk,
                   wLate, wAwait, axisHist>>
    /\ UNCHANGED <<focusHist, cleanup_lock>>
    /\ UNCHANGED contextVars
    /\ UNCHANGED windowHist

\* a post_dispatch_triggers that pushes Awakened without looking at the flag
PDT_Load_unconditional ==
    /\ pc = "pdt_load"
    /\ sink_lock = "free"
    /\ sink_lock' = "loop"
    /\ sink' = Append(sink, Awakened)
    /\ nAwakened' = nAwakened + 1
    /\ pc' = "pdt_clear"
    /\ UNCHANGED <<site, pending_wakeup, control_flow, dispatched, cleanup_needed, store,
                   connVars, wakerVars, pointerVars, drainHist, nStored, nOk,
                   wLate, wAwait, axisHist>>
    /\ UNCHANGED <<focusHist, cleanup_lock>>
    /\ UNCHANGED contextVars
    /\ UNCHANGED windowHist

\* post_dispatch_triggers, lines 331-335: lock the sink, load the flag and
\* push Awakened when it is set
PDT_Load ==
    /\ pc = "pdt_load"
    /\ sink_lock = "free"
    /\ sink_lock' = "loop"
    /\ IF pending_wakeup
       THEN /\ sink' = send_raw_event(sink, Awakened)
            /\ nAwakened' = nAwakened + 1
            /\ pc' = "pdt_clear"
       ELSE /\ pc' = "pdt_windows"
            /\ UNCHANGED <<sink, nAwakened>>
    /\ UNCHANGED <<site, pending_wakeup, control_flow, dispatched, cleanup_needed, store,
                   connVars, wakerVars, pointerVars, drainHist, nStored, nOk,
                   wLate, wAwait, axisHist>>
    /\ UNCHANGED <<focusHist, cleanup_lock>>
    /\ UNCHANGED contextVars
    /\ UNCHANGED windowHist

\* post_dispatch_triggers, line 336: store false
PDT_Clear ==
    /\ pc = "pdt_clear"
    /\ pending_wakeup' = FALSE
    /\ pc' = "pdt_windows"
    /\ UNCHANGED <<site, sink, control_flow, dispatched, cleanup_needed, store, connVars,
                   wakerVars, pointerVars, drainHist, wakeHist, axisHist>>
    /\ UNCHANGED focusHist
    /\ UNCHANGED lockVars
    /\ UNCHANGED contextVars
    /\ UNCHANGED windowHist

\* post_dispatch_triggers, line 340: lock cleanup_needed, with the sink
\* still locked
PDT_CleanupLock ==
    /\ pc = "pdt_windows"
    /\ cleanup_lock = "free"
    /\ cleanup_lock' = "loop"
    /\ pc' = "pdt_cleanup"
    /\ UNCHANGED <<site, sink, pending_wakeup, control_flow, dispatched, cleanup_needed, store,
                   connVars, wakerVars, pointerVars, drainHist, wakeHist, axisHist, focusHist,
                   sink_lock>>
    /\ UNCHANGED contextVars
    /\ UNCHANGED windowHist

\* a post_dispatch_triggers that clears cleanup_needed and prunes nothing
PDT_Cleanup_skipped ==
    /\ pc = "pdt_cleanup"
    /\ cleanup_needed' = FALSE
    /\ cleanup_lock' = "free"
    /\ pc' = "pdt_for_each"
    /\ UNCHANGED <<site, sink, pending_wakeup, control_flow, dispatched, connVars, wakerVars,
                   pointerVars, drainHist, wakeHist, axisHist, focusHist, sink_lock>>
    /\ UNCHANGED contextVars
    /\ UNCHANGED <<store, pruned>>

\* post_dispatch_triggers, lines 341-345: prune when cleanup is needed, and
\* unlock cleanup_needed
PDT_Cleanup ==
    /\ pc = "pdt_cleanup"
    /\ store' = IF cleanup_needed THEN cleanup(store) ELSE store
    /\ pruned' = IF cleanup_needed THEN {w \in Range(store) : w.dead} ELSE {}
    /\ cleanup_needed' = FALSE
    /\ cleanup_lock' = "free"
    /\ pc' = "pdt_for_each"
    /\ UNCHANGED <<site, sink, pending_wakeup, control_flow, dispatched, connVars, wakerVars,
                   pointerVars, drainHist, wakeHist, axisHist, focusHist, sink_lock>>
    /\ UNCHANGED contextVars

\* post_dispatch_triggers, lines 346-361: the pending window flags; the sink
\* is unlocked at the return, and the caller locks it again for empty_with
\* (lines 186, 203, 211)
PDT_Windows ==
    /\ pc = "pdt_for_each"
    /\ sink' = for_each(sink, store)
    /\ store' = ClearFlags(ResizeSurfaces(store))
    /\ pc' = "drain"
    /\ batch' = sink'
    /\ delivered' = <<>>
    /\ UNCHANGED <<site, pending_wakeup, control_flow, dispatched, cleanup_needed, connVars,
                   wakerVars, pointerVars, wakeHist, axisHist, focusHist, lockVars>>
    /\ UNCHANGED contextVars
    /\ UNCHANGED windowHist

\* an empty_with that stops at a Break and throws the rest of the buffer away
DrainOne_truncating(cf) ==
    /\ pc = "drain"
    /\ sink # <<>>
    /\ delivered' = Append(delivered, Head(sink))
    /\ sink' = IF site \in {"rf_pre", "rf_loop"} /\ cf = "Break" THEN <<>> ELSE Tail(sink)
    /\ control_flow' = IF site \in {"rf_pre", "rf_loop"} /\ cf = "Break"
                       THEN "Break" ELSE control_flow
    /\ wAwait' = IF Head(sink).type = "Awakened"
                 THEN [t \in Wakers |-> CASE wAwait[t] = "waiting" -> "served"
                                        [] wAwait[t] = "stored" -> "seen"
                                        [] OTHER -> wAwait[t]]
                 ELSE wAwait
    /\ UNCHANGED <<pc, site, pending_wakeup, dispatched, cleanup_needed, store, connVars,
                   wakerVars, pointerVars, batch, nStored, nOk, nAwakened, wLate,
                   axisHist>>
    /\ UNCHANGED focusHist
    /\ UNCHANGED lockVars
    /\ UNCHANGED contextVars
    /\ UNCHANGED windowHist

\* empty_with, lines 50-54, one turn of the drain: the oldest event leaves the
\* buffer and goes to the callback; in run_forever the wrapper of lines
\* 197-199 records a Break
DrainOne(cf) ==
    /\ pc = "drain"
    /\ sink # <<>>
    /\ delivered' = Append(delivered, Head(sink))
    /\ sink' = Tail(sink)
    /\ control_flow' = IF site \in {"rf_pre", "rf_loop"} /\ cf = "Break"
                       THEN "Break" ELSE control_flow
    /\ wAwait' = IF Head(sink).type = "Awakened"
                 THEN [t \in Wakers |-> CASE wAwait[t] = "waiting" -> "served"
                                        [] wAwait[t] = "stored" -> "seen"
                                        [] OTHER -> wAwait[t]]
                 ELSE wAwait
    /\ UNCHANGED <<pc, site, pending_wakeup, dispatched, cleanup_needed, store, connVars,
                   wakerVars, pointerVars, batch, nStored, nOk, nAwakened, wLate,
                   axisHist>>
    /\ UNCHANGED focusHist
    /\ UNCHANGED lockVars
    /\ UNCHANGED contextVars
    /\ UNCHANGED windowHist

\* the end of empty_with and what the caller does next: run_forever enters
\* its loop after the first drain (line 205) and tests control_flow after the
\* later ones (lines 213-215); poll_events reads and dispatches after its
\* first drain (lines 178-182) and returns after its second
DrainEnd ==
    /\ pc = "drain"
    /\ sink = <<>>
    /\ pc' = CASE site = "rf_pre" -> "rf_dispatch"
               [] site = "rf_loop" -> IF control_flow = "Break" THEN "idle" ELSE "rf_dispatch"
               [] site = "pe_pre" -> "pe_dispatch"
               [] OTHER -> "idle"
    /\ control_flow' = IF pc' = "idle" THEN "Continue" ELSE control_flow
    /\ dispatched' = FALSE
    /\ batch' = <<>>
    /\ delivered' = <<>>
    /\ sink_lock' = "free"
    /\ UNCHANGED <<site, sink, pending_wakeup, cleanup_needed, store, connVars, wakerVars,
                   pointerVars, wakeHist, axisHist>>
    /\ UNCHANGED <<focusHist, cleanup_lock>>
    /\ UNCHANGED contextVars
    /\ UNCHANGED windowHist

\* a dispatch that returns only once it has run a callback, in poll_events too
DispatchReturn_blocking ==
    /\ InDispatch
    /\ connOk
    /\ dispatched
    /\ site' = IF pc = "rf_dispatch" THEN "rf_loop" ELSE "pe_post"
    /\ pc' = "pdt_load"
    /\ UNCHANGED <<sink, pending_wakeup, control_flow, dispatched, cleanup_needed, store,
                   connVars, wakerVars, pointerVars, drainHist, wakeHist, axisHist>>
    /\ UNCHANGED <<focusHist, lockVars, contextVars, windowHist>>

\* the dispatch of run_forever (line 207) returns once it has run a
\* callback; dispatch_pending of poll_events (line 182) returns in any case;
\* post_dispatch_triggers follows (lines 183, 208)
DispatchReturn ==
    /\ InDispatch
    /\ connOk
    /\ pc = "rf_dispatch" => dispatched
    /\ site' = IF pc = "rf_dispatch" THEN "rf_loop" ELSE "pe_post"
    /\ pc' = "pdt_load"
    /\ UNCHANGED <<sink, pending_wakeup, control_flow, dispatched, cleanup_needed, store,
                   connVars, wakerVars, pointerVars, drainHist, wakeHist, axisHist>>
    /\ UNCHANGED focusHist
    /\ UNCHANGED lockVars
    /\ UNCHANGED contextVars
    /\ UNCHANGED windowHist

\* expect("Wayland connection lost."), lines 179, 182, 207
DispatchFail ==
    /\ InDispatch
    /\ connOk' = FALSE
    /\ pc' = "panicked"
    /\ UNCHANGED <<site, sink, pending_wakeup, control_flow, dispatched, cleanup_needed,
                   store, outbuf, wire, wakerVars, pointerVars, drainHist, wakeHist, axisHist>>
    /\ UNCHANGED focusHist
    /\ UNCHANGED lockVars
    /\ UNCHANGED contextVars
    /\ UNCHANGED windowHist

\* the EventsLoop is dropped, field by field in declaration order (lines
\* 57-74): pending_wakeup goes before display
DropLoop ==
    /\ pc = "idle"
    /\ pc' = "dropping"
    /\ UNCHANGED <<site, sink, pending_wakeup, control_flow, dispatched, cleanup_needed,
                   store, connVars, wakerVars, pointerVars, drainHist, wakeHist, axisHist>>
    /\ UNCHANGED focusHist
    /\ UNCHANGED lockVars
    /\ UNCHANGED contextVars
    /\ UNCHANGED windowHist

DropDisplay ==
    /\ pc = "dropping"
    /\ pc' = "dropped"
    /\ UNCHANGED <<site, sink, pending_wakeup, control_flow, dispatched, cleanup_needed,
                   store, connVars, wakerVars, pointerVars, drainHist, wakeHist, axisHist>>
    /\ UNCHANGED focusHist
    /\ UNCHANGED lockVars
    /\ UNCHANGED contextVars
    /\ UNCHANGED windowHist

\* the done event of a sync request reaches the event queue and is dispatched
SyncDone ==
    /\ InDispatch
    /\ connOk
    /\ wire > 0
    /\ wire' = wire - 1
    /\ dispatched' = TRUE
    /\ UNCHANGED <<pc, site, sink, pending_wakeup, control_flow, cleanup_needed, store,
                   connOk, outbuf, wakerVars, pointerVars, drainHist, wakeHist, axisHist>>
    /\ UNCHANGED focusHist
    /\ UNCHANGED lockVars
    /\ UNCHANGED contextVars
    /\ UNCHANGED windowHist

\* ------------------------------------------------- EventsLoopProxy::wakeup
\* The proxy holds Weak pointers (lines 80-83, 161-166).  An upgrade gives
\* Some while the Arc has a strong owner: the EventsLoop until it drops the
\* field, and every wakeup() call that holds the upgraded Arc.
HoldsDisplay(t) == wpc[t] \in {"upgrade_wakeup", "store", "sync", "flush"}
HoldsWakeup(t) == wpc[t] \in {"store", "sync", "flush"}
DisplayAlive == pc # "dropped" \/ \E t \in Wakers : HoldsDisplay(t)
WakeupAlive == pc \notin {"dropping", "dropped"} \/ \E t \in Wakers : HoldsWakeup(t)

\* wakeup() is called; line 90: self.display.upgrade()
W_Call(t) ==
    /\ wpc[t] = "idle"
    /\ wres[t] = "none"
    /\ \A u \in Wakers : u < t => (wpc[u] # "idle" \/ wres[u] # "none")
    /\ wpc' = [wpc EXCEPT ![t] = IF DisplayAlive THEN "upgrade_wakeup" ELSE "upgrade_wakeup_none"]
    /\ UNCHANGED wres
    /\ wLate' = [wLate EXCEPT ![t] = (pc = "dropped")]
    /\ UNCHANGED <<wAwait, loopVars, connVars, pointerVars, drainHist, nStored, nOk, nAwakened,
                   axisHist>>
    /\ UNCHANGED focusHist
    /\ UNCHANGED lockVars
    /\ UNCHANGED contextVars
    /\ UNCHANGED windowHist

\* lines 91-93 and 101: self.pending_wakeup.upgrade() and the match; with a
\* None on either side the call returns Err(EventsLoopClosed)
W_Upgrade(t) ==
    /\ wpc[t] \in {"upgrade_wakeup", "upgrade_wakeup_none"}
    /\ IF wpc[t] = "upgrade_wakeup" /\ WakeupAlive
       THEN /\ wpc' = [wpc EXCEPT ![t] = "store"]
            /\ UNCHANGED wres
       ELSE /\ wpc' = [wpc EXCEPT ![t] = "idle"]
            /\ wres' = [wres EXCEPT ![t] = "Err"]
    /\ UNCHANGED <<loopVars, connVars, pointerVars, drainHist, wakeHist, axisHist>>
    /\ UNCHANGED focusHist
    /\ UNCHANGED lockVars
    /\ UNCHANGED contextVars
    /\ UNCHANGED windowHist

\* line 95: wakeup.store(true)
W_Store(t) ==
    /\ wpc[t] = "store"
    /\ pending_wakeup' = TRUE
    /\ wpc' = [wpc EXCEPT ![t] = "sync"]
    /\ nStored' = nStored + 1
    /\ wAwait' = [wAwait EXCEPT ![t] = IF pc = "rf_dispatch" THEN "waiting" ELSE "stored"]
    /\ UNCHANGED <<pc, site, sink, control_flow, dispatched, cleanup_needed, store, connVars,
                   wres, pointerVars, drainHist, nOk, nAwakened, wLate, axisHist>>
    /\ UNCHANGED focusHist
    /\ UNCHANGED lockVars
    /\ UNCHANGED contextVars
    /\ UNCHANGED windowHist

\* a wakeup() that leaves the sync request out
W_Sync_skipped(t) ==
    /\ wpc[t] = "sync"
    /\ wpc' = [wpc EXCEPT ![t] = "flush"]
    /\ UNCHANGED <<loopVars, connVars, wres, pointerVars, drainHist, wakeHist, axisHist>>
    /\ UNCHANGED focusHist
    /\ UNCHANGED lockVars
    /\ UNCHANGED contextVars
    /\ UNCHANGED windowHist

\* line 97: display.sync() writes the request to the display's buffer
W_Sync(t) ==
    /\ wpc[t] = "sync"
    /\ outbuf' = outbuf + 1
    /\ wpc' = [wpc EXCEPT ![t] = "flush"]
    /\ UNCHANGED <<loopVars, connOk, wire, wres, pointerVars, drainHist, wakeHist, axisHist>>
    /\ UNCHANGED focusHist
    /\ UNCHANGED lockVars
    /\ UNCHANGED contextVars
    /\ UNCHANGED windowHist

\* lines 98-99: display.flush(), whose error becomes Err(EventsLoopClosed)
W_Flush(t) ==
    /\ wpc[t] = "flush"
    /\ \E ok \in Outcomes :
          IF ok
          THEN /\ FlushOut
               /\ wres' = [wres EXCEPT ![t] = "Ok"]
               /\ nOk' = nOk + 1
          ELSE /\ wres' = [wres EXCEPT ![t] = "Err"]
               /\ connOk' = FALSE
               /\ UNCHANGED <<outbuf, wire, nOk>>
    /\ wpc' = [wpc EXCEPT ![t] = "idle"]
    /\ UNCHANGED <<loopVars, pointerVars, drainHist, nStored, nAwakened, wLate, wAwait,
                   axisHist>>
    /\ UNCHANGED focusHist
    /\ UNCHANGED lockVars
    /\ UNCHANGED contextVars
    /\ UNCHANGED windowHist

\* ------------------------------------------------- pointer_implementation
\* an accumulation that keeps the sign of the vertical value
axis_add_raw(buf, axis, value) ==
    IF axis = "VerticalScroll" THEN <<buf[1], buf[2] + value>> ELSE <<buf[1] + value, buf[2]>>

\* lines 621-625, 636-640, 679-684: the value goes to y, negated, for the
\* vertical axis and to x for the horizontal one
axis_add(buf, axis, value) ==
    IF axis = "VerticalScroll" THEN <<buf[1], buf[2] - value>> ELSE <<buf[1] + value, buf[2]>>

\* unwrap_or((0, 0)), lines 635 and 679
unwrap_or_zero(buf) == IF buf = None THEN <<0, 0>> ELSE buf

\* a phase update that never restarts the phase
next_axis_state_moved(phase) == "Moved"

\* a phase update that forgets the Moved arm of the match
next_axis_state_toggle(phase) == IF phase = "Started" THEN "Moved" ELSE "Started"

\* lines 642-645 and 686-689
next_axis_state(phase) == IF phase \in {"Started", "Moved"} THEN "Moved" ELSE "Started"

\* a button code the match of lines 599-605 does not know
NoButton == "none"

\* a translation that takes every unknown code for the middle button
button_of_any(code) ==
    CASE code = 272 -> "Left"
      [] code = 273 -> "Right"
      [] OTHER -> "Middle"

\* lines 599-605: the button of a code
button_of(code) ==
    CASE code = 272 -> "Left"
      [] code = 273 -> "Right"
      [] code = 274 -> "Middle"
      [] OTHER -> NoButton

MouseWheel(kind, delta, phase) == Ev("MouseWheel", NoWid, delta[1], delta[2], kind, phase)

\* the dispatch call has run a callback
Ran == dispatched' = TRUE

\* a dispatch call on a usable connection runs pointer callbacks until the
\* sink holds MaxSink events
CallbackRuns == InDispatch /\ connOk /\ Len(sink) < MaxSink

\* one more axis or axis_discrete callback since the last frame
BatchAdd(dH, dV, dDH, dDV, disc) ==
    /\ rawH' = rawH + dH
    /\ rawV' = rawV + dV
    /\ rawDH' = rawDH + dDH
    /\ rawDV' = rawDV + dDV
    /\ nAxis' = nAxis + 1
    /\ nDisc' = nDisc + disc
    /\ stopped' = FALSE
    /\ UNCHANGED <<steady, discarded>>

BatchOpen == nAxis < MaxAxis

\* an enter that drops the focus when its surface has no window
Enter_clearing(surface, pos) ==
    /\ CallbackRuns
    /\ LET wid == find_wid(store, surface)
       IN  IF wid # NoWid
           THEN /\ mouse_focus' = wid
                /\ sink' = send_event(
                              send_event(sink, Ev("MouseEntered", NoWid, 0, 0, "", ""), wid),
                              Ev("MouseMoved", NoWid, pos[1], pos[2], "", ""), wid)
           ELSE /\ mouse_focus' = NoWid
                /\ UNCHANGED sink
    /\ steady' = (nAxis = 0 \/ (steady /\ mouse_focus' = mouse_focus))
    /\ Ran
    /\ UNCHANGED <<pc, site, pending_wakeup, control_flow, cleanup_needed, store, connVars,
                   wakerVars, version, axis_buffer, axis_discrete_buffer, axis_state,
                   drainHist, wakeHist, rawH, rawV, rawDH, rawDV, nAxis, nDisc, stopped,
                   discarded>>
    /\ UNCHANGED lockVars
    /\ UNCHANGED contextVars
    /\ UNCHANGED windowHist

\* enter, lines 549-568
Enter(surface, pos) ==
    /\ CallbackRuns
    /\ LET wid == find_wid(store, surface)
       IN  IF wid # NoWid
           THEN /\ mouse_focus' = wid
                /\ sink' = send_event(
                              send_event(sink, Ev("MouseEntered", NoWid, 0, 0, "", ""), wid),
                              Ev("MouseMoved", NoWid, pos[1], pos[2], "", ""), wid)
           ELSE UNCHANGED <<mouse_focus, sink>>
    /\ steady' = (nAxis = 0 \/ (steady /\ mouse_focus' = mouse_focus))
    /\ Ran
    /\ UNCHANGED <<pc, site, pending_wakeup, control_flow, cleanup_needed, store, connVars,
                   wakerVars, version, axis_buffer, axis_discrete_buffer, axis_state,
                   drainHist, wakeHist, rawH, rawV, rawDH, rawDV, nAxis, nDisc, stopped,
                   discarded>>
    /\ UNCHANGED lockVars
    /\ UNCHANGED contextVars
    /\ UNCHANGED windowHist

\* a leave that keeps the focus it had
Leave_keeps_focus(surface) ==
    /\ CallbackRuns
    /\ LET wid == find_wid(store, surface)
       IN  IF wid # NoWid
           THEN sink' = send_event(sink, Ev("MouseLeft", NoWid, 0, 0, "", ""), wid)
           ELSE UNCHANGED sink
    /\ Ran
    /\ UNCHANGED <<pc, site, pending_wakeup, control_flow, cleanup_needed, store, connVars,
                   wakerVars, pointerVars, drainHist, wakeHist, axisHist>>
    /\ UNCHANGED lockVars
    /\ UNCHANGED contextVars
    /\ UNCHANGED windowHist

\* leave, lines 569-581
Leave(surface) ==
    /\ CallbackRuns
    /\ mouse_focus' = NoWid
    /\ LET wid == find_wid(store, surface)
       IN  IF wid # NoWid
           THEN sink' = send_event(sink, Ev("MouseLeft", NoWid, 0, 0, "", ""), wid)
           ELSE UNCHANGED sink
    /\ steady' = (nAxis = 0 \/ (steady /\ mouse_focus = NoWid))
    /\ Ran
    /\ UNCHANGED <<pc, site, pending_wakeup, control_flow, cleanup_needed, store, connVars,
                   wakerVars, version, axis_buffer, axis_discrete_buffer, axis_state,
                   drainHist, wakeHist, rawH, rawV, rawDH, rawDV, nAxis, nDisc, stopped,
                   discarded>>
    /\ UNCHANGED lockVars
    /\ UNCHANGED contextVars
    /\ UNCHANGED windowHist

\* motion, lines 582-592
Motion(pos) ==
    /\ CallbackRuns
    /\ IF mouse_focus # NoWid
       THEN sink' = send_event(sink, Ev("MouseMoved", NoWid, pos[1], pos[2], "", ""), mouse_focus)
       ELSE UNCHANGED sink
    /\ Ran
    /\ UNCHANGED <<pc, site, pending_wakeup, control_flow, cleanup_needed, store, connVars,
                   wakerVars, pointerVars, drainHist, wakeHist, axisHist>>
    /\ UNCHANGED lockVars
    /\ UNCHANGED contextVars
    /\ UNCHANGED windowHist

\* button, lines 593-615
Button(code, state) ==
    /\ CallbackRuns
    /\ IF mouse_focus # NoWid /\ button_of(code) # NoButton
       THEN sink' = send_event(sink, Ev("MouseInput", NoWid, 0, 0, state, button_of(code)),
                                  mouse_focus)
       ELSE UNCHANGED sink
    /\ Ran
    /\ UNCHANGED <<pc, site, pending_wakeup, control_flow, cleanup_needed, store, connVars,
                   wakerVars, pointerVars, drainHist, wakeHist, axisHist>>
    /\ UNCHANGED lockVars
    /\ UNCHANGED contextVars
    /\ UNCHANGED windowHist

\* axis, lines 616-648
Axis(axis, value) ==
    /\ CallbackRuns
    /\ BatchOpen
    /\ IF mouse_focus # NoWid
       THEN IF version < 5
            THEN sink' = send_event(sink,
                               MouseWheel("PixelDelta", axis_add(<<0, 0>>, axis, value), "Moved"),
                               mouse_focus)
                 /\ UNCHANGED <<axis_buffer, axis_state>>
            ELSE /\ axis_buffer' = axis_add(unwrap_or_zero(axis_buffer), axis, value)
                 /\ axis_state' = next_axis_state(axis_state)
                 /\ UNCHANGED sink
       ELSE UNCHANGED <<sink, axis_buffer, axis_state>>
    /\ IF axis = "VerticalScroll" THEN BatchAdd(0, value, 0, 0, 0) ELSE BatchAdd(value, 0, 0, 0, 0)
    /\ Ran
    /\ UNCHANGED <<pc, site, pending_wakeup, control_flow, cleanup_needed, store, connVars,
                   wakerVars, version, mouse_focus, axis_discrete_buffer, drainHist, wakeHist>>
    /\ UNCHANGED lockVars
    /\ UNCHANGED contextVars
    /\ UNCHANGED windowHist

\* a frame that looks at the continuous buffer first
Frame_continuous_first ==
    /\ CallbackRuns
    /\ axis_buffer' = None
    /\ axis_discrete_buffer' = None
    /\ IF mouse_focus # NoWid /\ axis_buffer # None
       THEN sink' = send_event(sink, MouseWheel("PixelDelta", axis_buffer, axis_state),
                                  mouse_focus)
       ELSE IF mouse_focus # NoWid /\ axis_discrete_buffer # None
            THEN sink' = send_event(sink, MouseWheel("LineDelta", axis_discrete_buffer, axis_state),
                                       mouse_focus)
            ELSE UNCHANGED sink
    /\ rawH' = 0
    /\ rawV' = 0
    /\ rawDH' = 0
    /\ rawDV' = 0
    /\ nAxis' = 0
    /\ nDisc' = 0
    /\ steady' = TRUE
    /\ discarded' = (mouse_focus # NoWid /\ axis_discrete_buffer # None /\ axis_buffer # None)
    /\ Ran
    /\ UNCHANGED <<pc, site, pending_wakeup, control_flow, cleanup_needed, store, connVars,
                   wakerVars, version, mouse_focus, axis_state, drainHist, wakeHist, stopped>>
    /\ UNCHANGED lockVars
    /\ UNCHANGED contextVars
    /\ UNCHANGED windowHist

\* frame, lines 649-673
Frame ==
    /\ CallbackRuns
    /\ axis_buffer' = None
    /\ axis_discrete_buffer' = None
    /\ IF mouse_focus # NoWid /\ axis_discrete_buffer # None
       THEN sink' = send_event(sink, MouseWheel("LineDelta", axis_discrete_buffer, axis_state),
                                  mouse_focus)
       ELSE IF mouse_focus # NoWid /\ axis_buffer # None
            THEN sink' = send_event(sink, MouseWheel("PixelDelta", axis_buffer, axis_state),
                                       mouse_focus)
            ELSE UNCHANGED sink
    /\ rawH' = 0
    /\ rawV' = 0
    /\ rawDH' = 0
    /\ rawDV' = 0
    /\ nAxis' = 0
    /\ nDisc' = 0
    /\ steady' = TRUE
    /\ discarded' = (mouse_focus # NoWid /\ axis_discrete_buffer # None /\ axis_buffer # None)
    /\ Ran
    /\ UNCHANGED <<pc, site, pending_wakeup, control_flow, cleanup_needed, store, connVars,
                   wakerVars, version, mouse_focus, axis_state, drainHist, wakeHist, stopped>>
    /\ UNCHANGED lockVars
    /\ UNCHANGED contextVars
    /\ UNCHANGED windowHist

\* axis_source, line 674
AxisSource ==
    /\ CallbackRuns
    /\ Ran
    /\ UNCHANGED <<pc, site, sink, pending_wakeup, control_flow, cleanup_needed, store, connVars,
                   wakerVars, pointerVars, drainHist, wakeHist, axisHist>>
    /\ UNCHANGED lockVars
    /\ UNCHANGED contextVars
    /\ UNCHANGED windowHist

\* axis_stop, lines 675-677
AxisStop ==
    /\ CallbackRuns
    /\ axis_state' = "Ended"
    /\ stopped' = TRUE
    /\ Ran
    /\ UNCHANGED <<pc, site, sink, pending_wakeup, control_flow, cleanup_needed, store, connVars,
                   wakerVars, version, mouse_focus, axis_buffer, axis_discrete_buffer,
                   drainHist, wakeHist, rawH, rawV, rawDH, rawDV, nAxis, nDisc, steady,
                   discarded>>
    /\ UNCHANGED lockVars
    /\ UNCHANGED contextVars
    /\ UNCHANGED windowHist

\* axis_discrete, lines 678-690
AxisDiscrete(axis, discrete) ==
    /\ CallbackRuns
    /\ BatchOpen
    /\ axis_discrete_buffer' = axis_add(unwrap_or_zero(axis_discrete_buffer), axis, discrete)
    /\ axis_state' = next_axis_state(axis_state)
    /\ IF axis = "VerticalScroll" THEN BatchAdd(0, 0, 0, discrete, 1) ELSE BatchAdd(0, 0, discrete, 0, 1)
    /\ Ran
    /\ UNCHANGED <<pc, site, sink, pending_wakeup, control_flow, cleanup_needed, store, connVars,
                   wakerVars, version, mouse_focus, axis_buffer, drainHist, wakeHist>>
    /\ UNCHANGED lockVars
    /\ UNCHANGED contextVars
    /\ UNCHANGED windowHist

\* ------------------------------------------------------------ the seat
\* Option<WlPointer>, Option<WlKeyboard>: no object
NoObject == 0

\* a wl_pointer or wl_keyboard object of the seat
SeatObject(kind, id) == [kind |-> kind, id |-> id]

ObjectsOf(kind, objs) == {o \in objs : o.kind = kind}

\* a capability handler that requests a new object at every announcement of
\* the flag
seat_sub_duplicating(kind, present, cur, fresh) ==
    [handle |-> IF present THEN fresh ELSE NoObject,
     created |-> IF present THEN {SeatObject(kind, fresh)} ELSE {},
     released |-> IF ~present /\ cur # NoObject THEN {SeatObject(kind, cur)} ELSE {}]

\* a capability handler that never releases its object
seat_sub_keeping(kind, present, cur, fresh) ==
    [handle |-> IF present /\ cur = NoObject THEN fresh ELSE cur,
     created |-> IF present /\ cur = NoObject THEN {SeatObject(kind, fresh)} ELSE {},
     released |-> {}]

\* capabilities, lines 494-505 for the pointer and 507-517 for the keyboard:
\* the flag is present and there is no object: request and register one and
\* keep it; the flag is absent: take the object, if any, and release it.
\* The result is the new Option, the object created and the object released.
seat_sub(kind, present, cur, fresh) ==
    LET create == present /\ cur = NoObject
        held == IF create THEN fresh ELSE cur
    IN  [handle |-> IF present THEN held ELSE NoObject,
         created |-> IF create THEN {SeatObject(kind, fresh)} ELSE {},
         released |-> IF ~present /\ held # NoObject THEN {SeatObject(kind, held)} ELSE {}]

\* seat_implementation::capabilities, lines 492-518; a new wl_pointer gets a
\* fresh PointerIData (line 497)
Capabilities(caps) ==
    /\ InDispatch
    /\ connOk
    /\ nCaps < MaxCaps
    /\ LET p == seat_sub("pointer", "Pointer" \in caps, seat_pointer, Cardinality(requested) + 1)
           k == seat_sub("keyboard", "Keyboard" \in caps, seat_keyboard,
                         Cardinality(requested \cup p.created) + 1)
       IN  /\ seat_pointer' = p.handle
           /\ seat_keyboard' = k.handle
           /\ requested' = requested \cup p.created \cup k.created
           /\ live' = ((((live \cup p.created) \ p.released) \cup k.created) \ k.released)
           /\ IF p.created # {}
              THEN /\ mouse_focus' = NoWid
                   /\ axis_buffer' = None
                   /\ axis_discrete_buffer' = None
                   /\ axis_state' = "Cancelled"
              ELSE UNCHANGED <<mouse_focus, axis_buffer, axis_discrete_buffer, axis_state>>
    /\ lastCaps' = caps
    /\ nCaps' = nCaps + 1
    /\ Ran
    /\ UNCHANGED <<pc, site, sink, pending_wakeup, control_flow, cleanup_needed, store, connVars,
                   wakerVars, version, drainHist, wakeHist, axisHist, focusHist, lockVars>>
    /\ UNCHANGED <<registryVars, monitorVars>>
    /\ UNCHANGED windowHist

\* ------------------------------------------------ registry and monitors
\* Option<Shell>, Option<WlSeat>: nothing bound
NoShell == [variant |-> "None", name |-> 0]
NoSeat == 0

Shell(variant, name) == [variant |-> variant, name |-> name]

\* OutputInfo::new, lines 747-756
OutputInfo(id) ==
    [id |-> id, scale |-> 1, pix_size |-> <<0, 0>>, pix_pos |-> <<0, 0>>, name |-> ""]

\* the name of the first advertised global of an interface, 0 when there is none
first_global(gl, interface) ==
    LET idx == {i \in 1..Len(gl) : gl[i].interface = interface}
    IN  IF idx = {} THEN 0 ELSE gl[CHOOSE i \in idx : \A j \in idx : i <= j].name

\* an ensure_shell that binds wl_shell whatever the shell is
ensure_shell_rebinding(sh, gl) ==
    IF first_global(gl, "wl_shell") # 0
    THEN Shell("Wl", first_global(gl, "wl_shell"))
    ELSE NoShell

\* ensure_shell, lines 274-287: the shell after the call, NoShell when the
\* call panics
ensure_shell(sh, gl) ==
    IF sh # NoShell
    THEN sh
    ELSE IF first_global(gl, "wl_shell") # 0
         THEN Shell("Wl", first_global(gl, "wl_shell"))
         ELSE NoShell

\* a retain that keeps every monitor
retain_all(ms, inf, id) == ms

\* del_global, lines 457-459: monitors.retain(|m| m.id != id)
retain(ms, inf, id) == SelectSeq(ms, LAMBDA r : inf[r].id # id)

\* the registry and the outputs speak while a sync_roundtrip of
\* EventsLoop::new (lines 125-126) or a dispatch of the loop runs
InRegistryDispatch == (pc = "new_roundtrip" \/ InDispatch) /\ connOk

RanIfDispatch == dispatched' = (dispatched \/ InDispatch)

\* env_notify new_global, lines 439-454
NewGlobal(interface) ==
    /\ InRegistryDispatch
    /\ nGlobals < MaxGlobals
    /\ nGlobals' = nGlobals + 1
    /\ globals' = Append(globals, [name |-> nGlobals', interface |-> interface])
    /\ IF interface = "wl_output"
       THEN /\ infos' = Append(infos, OutputInfo(nGlobals'))
            /\ monitors' = Append(monitors, Len(infos'))
            /\ UNCHANGED shell
       ELSE IF interface = "zxdg_shell_v6"
            THEN /\ shell' = Shell("Xdg", nGlobals')
                 /\ UNCHANGED <<infos, monitors>>
            ELSE UNCHANGED <<shell, infos, monitors>>
    /\ RanIfDispatch
    /\ UNCHANGED <<pc, site, sink, pending_wakeup, control_flow, cleanup_needed, store, connVars,
                   wakerVars, pointerVars, drainHist, wakeHist, axisHist, focusHist, lockVars,
                   seatVars, seat, winShell, handles, atRemoval, atHandle>>
    /\ UNCHANGED windowHist

\* env_notify del_global, lines 455-460
DelGlobal(id) ==
    /\ InRegistryDispatch
    /\ \E i \in 1..Len(globals) : globals[i].name = id
    /\ globals' = SelectSeq(globals, LAMBDA g : g.name # id)
    /\ monitors' = retain(monitors, infos, id)
    /\ atRemoval' = atRemoval \cup {<<r, infos[r]>> : r \in Range(monitors) \ Range(monitors')}
    /\ RanIfDispatch
    /\ UNCHANGED <<pc, site, sink, pending_wakeup, control_flow, cleanup_needed, store, connVars,
                   wakerVars, pointerVars, drainHist, wakeHist, axisHist, focusHist, lockVars,
                   seatVars, nGlobals, shell, seat, winShell, infos, handles, atHandle>>
    /\ UNCHANGED windowHist

\* output_impl geometry, lines 700-710: the OutputInfo of the output, when
\* monitors still has it, gets the position and the name
output_geometry(inf, ms, output, pos) ==
    IF output \in Range(ms)
    THEN [inf EXCEPT ![output].pix_pos = pos, ![output].name = "make - model"]
    ELSE inf

\* a mode callback that takes the size of any mode
output_mode_any(inf, ms, output, current, size) ==
    IF output \in Range(ms) THEN [inf EXCEPT ![output].pix_size = size] ELSE inf

\* output_impl mode, lines 711-722: only a mode flagged Current is looked at
output_mode(inf, ms, output, current, size) ==
    IF current /\ output \in Range(ms) THEN [inf EXCEPT ![output].pix_size = size] ELSE inf

\* output_impl scale, lines 724-733; the scales of the model are small
\* integers, which `scale as f32` keeps as they are
output_scale(inf, ms, output, scale) ==
    IF output \in Range(ms) THEN [inf EXCEPT ![output].scale = scale] ELSE inf

\* a callback of an output the loop has bound, removed since or not
OutputCallback(output) ==
    /\ InRegistryDispatch
    /\ output \in 1..Len(infos)
    /\ RanIfDispatch
    /\ UNCHANGED <<pc, site, sink, pending_wakeup, control_flow, cleanup_needed, store, connVars,
                   wakerVars, pointerVars, drainHist, wakeHist, axisHist, focusHist, lockVars,
                   seatVars, registryVars, monitors, handles, atRemoval, atHandle, windowHist>>

OutputGeometry(output, pos) ==
    /\ OutputCallback(output)
    /\ infos' = output_geometry(infos, monitors, output, pos)

OutputMode(output, current, size) ==
    /\ OutputCallback(output)
    /\ infos' = output_mode(infos, monitors, output, current, size)

OutputScale(output, scale) ==
    /\ OutputCallback(output)
    /\ infos' = output_scale(infos, monitors, output, scale)

\* EventsLoop::new, lines 125-126: the two sync_roundtrips return, or the
\* connection is lost and expect panics
NewRoundtrips ==
    /\ pc = "new_roundtrip"
    /\ \E ok \in Outcomes :
          IF ok
          THEN pc' = "new_ensure_shell" /\ UNCHANGED connOk
          ELSE pc' = "panicked" /\ connOk' = FALSE
    /\ UNCHANGED <<site, sink, pending_wakeup, control_flow, dispatched, cleanup_needed, store,
                   outbuf, wire, wakerVars, pointerVars, drainHist, wakeHist, axisHist,
                   focusHist, lockVars, contextVars>>
    /\ UNCHANGED windowHist

\* EventsLoop::new, lines 128-130: ensure_shell, which panics when it binds
\* nothing
NewEnsureShell ==
    /\ pc = "new_ensure_shell"
    /\ shell' = ensure_shell(shell, globals)
    /\ pc' = IF shell' = NoShell THEN "panicked" ELSE "new_init_seat"
    /\ UNCHANGED <<site, sink, pending_wakeup, control_flow, dispatched, cleanup_needed, store,
                   connVars, wakerVars, pointerVars, drainHist, wakeHist, axisHist, focusHist,
                   lockVars, seatVars, globals, nGlobals, seat, winShell, monitorVars>>
    /\ UNCHANGED windowHist

\* init_seat, lines 303-328: called by EventsLoop::new (lines 154-156), which
\* then returns the loop, and by anyone later
init_seat ==
    /\ pc \in {"new_init_seat", "idle"}
    /\ seat' = IF seat # NoSeat THEN seat ELSE first_global(globals, "wl_seat")
    /\ pc' = "idle"
    /\ UNCHANGED <<site, sink, pending_wakeup, control_flow, dispatched, cleanup_needed, store,
                   connVars, wakerVars, pointerVars, drainHist, wakeHist, axisHist, focusHist,
                   lockVars, seatVars, globals, nGlobals, shell, winShell, monitorVars>>
    /\ UNCHANGED windowHist

\* create_window, lines 392-430: takes the bound shell; None is unreachable!()
CreateWindow ==
    /\ pc = "idle"
    /\ IF shell = NoShell
       THEN pc' = "panicked" /\ UNCHANGED winShell
       ELSE winShell' = shell.variant /\ UNCHANGED pc
    /\ UNCHANGED <<site, sink, pending_wakeup, control_flow, dispatched, cleanup_needed, store,
                   connVars, wakerVars, pointerVars, drainHist, wakeHist, axisHist, focusHist,
                   lockVars, seatVars, globals, nGlobals, shell, seat, monitorVars>>
    /\ UNCHANGED windowHist

\* get_available_monitors, lines 232-239: a MonitorId for every entry
GetAvailableMonitors ==
    /\ pc = "idle"
    /\ handles' = handles \cup Range(monitors)
    /\ atHandle' = atHandle \cup {<<r, infos[r].scale>> : r \in Range(monitors) \ handles}
    /\ UNCHANGED <<loopVars, connVars, wakerVars, pointerVars, drainHist, wakeHist, axisHist,
                   focusHist, lockVars, seatVars, registryVars, monitors, infos, atRemoval>>
    /\ UNCHANGED windowHist

\* ---------------------------------------------------- the window flags
\* The windows set their pending state in the store: a configure of the
\* decorated surface leaves a new size, the window asks for a redraw, the
\* user closes it; these run as callbacks of a dispatch.  Releasing the
\* window handle, from any thread, marks the window dead, drops its decorated
\* surface and sets cleanup_needed under its mutex.
WindowCallback(i) ==
    /\ InDispatch
    /\ connOk
    /\ i \in 1..Len(store)
    /\ ~store[i].dead
    /\ Ran
    /\ UNCHANGED <<pc, site, sink, pending_wakeup, control_flow, cleanup_needed, connVars,
                   wakerVars, pointerVars, drainHist, wakeHist, axisHist, focusHist, lockVars,
                   contextVars, windowHist>>

Configure(i, size) ==
    /\ WindowCallback(i)
    /\ store' = [store EXCEPT ![i].newsize = size]

RequestRefresh(i) ==
    /\ WindowCallback(i)
    /\ store' = [store EXCEPT ![i].refresh = TRUE]

CloseRequested(i) ==
    /\ WindowCallback(i)
    /\ store' = [store EXCEPT ![i].closed = TRUE]

ReleaseWindow(i) ==
    /\ pc # "panicked"
    /\ i \in 1..Len(store)
    /\ ~store[i].dead
    /\ cleanup_lock = "free"
    /\ store' = [store EXCEPT ![i].dead = TRUE, ![i].decorated = FALSE]
    /\ cleanup_needed' = TRUE
    /\ UNCHANGED <<pc, site, sink, pending_wakeup, control_flow, dispatched, connVars, wakerVars,
                   pointerVars, drainHist, wakeHist, axisHist, focusHist, lockVars, contextVars,
                   windowHist>>

\* ------------------------------------------------ the other sink holders
\* A window, which holds a clone of the sink, locks it and pushes a window
\* event with send_event (lines 38-44), from any thread and at any time.
ExternalSend(type, wid) ==
    /\ pc # "panicked"
    /\ sink_lock = "free"
    /\ Len(sink) < MaxBuffered
    /\ sink' = send_event(sink, Ev(type, NoWid, 0, 0, "", ""), wid)
    /\ UNCHANGED <<pc, site, pending_wakeup, control_flow, dispatched, cleanup_needed, store,
                   connVars, wakerVars, pointerVars, drainHist, wakeHist, axisHist, focusHist,
                   lockVars, contextVars, windowHist>>

\* ---------------------------------------------------------------- Init
\* The state after EventsLoop::new (lines 107-159), create_proxy for every
\* waker thread, one create_window, and a seat that has announced its pointer.
InitLoop ==
    /\ pc = "idle"
    /\ site = "none"
    /\ sink = <<>>
    /\ pending_wakeup = FALSE
    /\ control_flow = "Continue"
    /\ dispatched = FALSE
    /\ cleanup_needed = FALSE
    /\ store = <<Window(1)>>
    /\ connOk = TRUE
    /\ outbuf = 0
    /\ wire = 0
    /\ wpc = [t \in Wakers |-> "idle"]
    /\ wres = [t \in Wakers |-> "none"]
    /\ batch = <<>>
    /\ delivered = <<>>
    /\ nStored = 0
    /\ nOk = 0
    /\ nAwakened = 0
    /\ wLate = [t \in Wakers |-> FALSE]
    /\ wAwait = [t \in Wakers |-> "no"]
    /\ trail = <<>>
    /\ out = <<>>
    /\ sink_lock = "free"
    /\ cleanup_lock = "free"
    /\ pruned = {}

\* the loop at another position and with another store, the wakeup flag
\* left open
InitLoopAt(pos, windows) ==
    /\ pc = pos
    /\ site = "none"
    /\ sink = <<>>
    /\ control_flow = "Continue"
    /\ dispatched = FALSE
    /\ cleanup_needed = FALSE
    /\ store = windows
    /\ connOk = TRUE
    /\ outbuf = 0
    /\ wire = 0
    /\ wpc = [t \in Wakers |-> "idle"]
    /\ wres = [t \in Wakers |-> "none"]
    /\ batch = <<>>
    /\ delivered = <<>>
    /\ nStored = 0
    /\ nOk = 0
    /\ nAwakened = 0
    /\ wLate = [t \in Wakers |-> FALSE]
    /\ wAwait = [t \in Wakers |-> "no"]
    /\ trail = <<>>
    /\ out = <<>>
    /\ sink_lock = "free"
    /\ cleanup_lock = "free"
    /\ pruned = {}

\* PointerIData::new, lines 532-545
InitPointerIData ==
    /\ mouse_focus = NoWid
    /\ axis_buffer = None
    /\ axis_discrete_buffer = None
    /\ axis_state = "Cancelled"
    /\ rawH = 0
    /\ rawV = 0
    /\ rawDH = 0
    /\ rawDV = 0
    /\ nAxis = 0
    /\ nDisc = 0
    /\ steady = TRUE
    /\ stopped = FALSE
    /\ discarded = FALSE

\* SeatIData of EventsLoop::new, lines 136-141: no pointer and no keyboard
InitSeatIData ==
    /\ seat_pointer = NoObject
    /\ seat_keyboard = NoObject
    /\ requested = {}
    /\ live = {}
    /\ lastCaps = {}
    /\ nCaps = 0

\* after EventsLoop::new on a server that advertises wl_seat and wl_shell, and
\* one create_window
InitConstructed ==
    /\ globals = <<[name |-> 1, interface |-> "wl_seat"], [name |-> 2, interface |-> "wl_shell"]>>
    /\ nGlobals = 2
    /\ shell = [variant |-> "Wl", name |-> 2]
    /\ seat = 1
    /\ winShell = "Wl"
    /\ monitors = <<>>
    /\ infos = <<>>
    /\ handles = {}
    /\ atRemoval = {}
    /\ atHandle = {}

\* the seat has announced its pointer, once
InitContext ==
    /\ InitConstructed
    /\ seat_pointer = 1
    /\ seat_keyboard = NoObject
    /\ requested = {SeatObject("pointer", 1)}
    /\ live = {SeatObject("pointer", 1)}
    /\ lastCaps = {"Pointer"}
    /\ nCaps = 1

Init ==
    /\ InitLoop
    /\ InitPointerIData
    /\ version = 5
    /\ InitContext

\* ---------------------------------------------------------------- Next
LoopStep ==
    \/ RunForever
    \/ PollEvents
    \/ PDT_Load
    \/ PDT_Clear
    \/ PDT_CleanupLock
    \/ PDT_Cleanup
    \/ PDT_Windows
    \/ \E cf \in ControlFlows : DrainOne(cf)
    \/ DrainEnd
    \/ DispatchReturn
    \/ DispatchFail

WakerStep ==
    \E t \in Wakers :
        \/ W_Call(t)
        \/ W_Upgrade(t)
        \/ W_Store(t)
        \/ W_Sync(t)
        \/ W_Flush(t)

Next ==
    \/ LoopStep
    \/ DropLoop
    \/ DropDisplay
    \/ WakerStep
    \/ SyncDone
    \/ \E s \in Surfaces, p \in Positions : Enter(s, p) /\ UNCHANGED focusHist
    \/ \E s \in Surfaces : Leave(s) /\ UNCHANGED focusHist
    \/ \E p \in Positions : Motion(p) /\ UNCHANGED focusHist

Spec == Init /\ [][Next]_vars

\* The pointer callbacks alone, all of them, on a loop that stays in the
\* dispatch of run_forever (line 207).  The pointer is of either version, and
\* an earlier dispatch may have left it on window 1.
InitPointer ==
    /\ pc = "rf_dispatch"
    /\ site = "rf_pre"
    /\ sink = <<>>
    /\ pending_wakeup = FALSE
    /\ control_flow = "Continue"
    /\ dispatched = FALSE
    /\ cleanup_needed = FALSE
    /\ store = <<Window(1)>>
    /\ connOk = TRUE
    /\ outbuf = 0
    /\ wire = 0
    /\ wpc = [t \in Wakers |-> "idle"]
    /\ wres = [t \in Wakers |-> "none"]
    /\ batch = <<>>
    /\ delivered = <<>>
    /\ nStored = 0
    /\ nOk = 0
    /\ nAwakened = 0
    /\ wLate = [t \in Wakers |-> FALSE]
    /\ wAwait = [t \in Wakers |-> "no"]
    /\ trail = <<>>
    /\ out = <<>>
    /\ sink_lock = "free"
    /\ cleanup_lock = "free"
    /\ pruned = {}
    /\ mouse_focus \in {NoWid, 1}
    /\ axis_buffer = None
    /\ axis_discrete_buffer = None
    /\ axis_state = "Cancelled"
    /\ rawH = 0
    /\ rawV = 0
    /\ rawDH = 0
    /\ rawDV = 0
    /\ nAxis = 0
    /\ nDisc = 0
    /\ steady = TRUE
    /\ stopped = FALSE
    /\ discarded = FALSE
    /\ version \in PointerVersions
    /\ InitContext

NextPointer ==
    \/ \E s \in Surfaces, p \in Positions : Enter(s, p) /\ UNCHANGED focusHist
    \/ \E s \in Surfaces : Leave(s) /\ UNCHANGED focusHist
    \/ \E p \in Positions : Motion(p) /\ UNCHANGED focusHist
    \/ \E c \in ButtonCodes, st \in ButtonStates : Button(c, st) /\ UNCHANGED focusHist
    \/ \E a \in Axes, v \in AxisValues : Axis(a, v) /\ UNCHANGED focusHist
    \/ Frame /\ UNCHANGED focusHist
    \/ AxisSource /\ UNCHANGED focusHist
    \/ AxisStop /\ UNCHANGED focusHist
    \/ \E a \in Axes, v \in AxisValues : AxisDiscrete(a, v) /\ UNCHANGED focusHist

SpecPointer == InitPointer /\ [][NextPointer]_vars

\* The loop thread, once inside run_forever or poll_events, goes on running:
\* its steps are taken when they are possible, and a dispatch on a broken
\* connection fails (lines 179, 182, 207).  The server answers the sync
\* requests it has received.  Nothing forces a call of run_forever,
\* poll_events or wakeup(), a protocol callback, or a failure of a usable
\* connection.
LoopProgress ==
    \/ PDT_Load
    \/ PDT_Clear
    \/ PDT_CleanupLock
    \/ PDT_Cleanup
    \/ PDT_Windows
    \/ \E cf \in ControlFlows : DrainOne(cf)
    \/ DrainEnd
    \/ DispatchReturn
    \/ (~connOk /\ DispatchFail)

FairSpec == Spec /\ WF_vars(LoopProgress) /\ WF_vars(SyncDone)

\* a thread that has entered wakeup() goes on to its end
WakerProgress == \E t \in Wakers : W_Upgrade(t) \/ W_Store(t) \/ W_Sync(t) \/ W_Flush(t)

\* the loop, its drop, the wakers and the server's answers to their syncs
NextWake ==
    \/ LoopStep
    \/ DropLoop
    \/ DropDisplay
    \/ WakerStep
    \/ SyncDone

SpecWake == Init /\ [][NextWake]_vars

\* The loop thread and the server as in FairSpec, the waker threads run their
\* calls to the end, and the application, as long as it keeps the loop, goes
\* back into run_forever.
FairWake ==
    /\ SpecWake
    /\ WF_vars(LoopProgress)
    /\ WF_vars(SyncDone)
    /\ WF_vars(WakerProgress)
    /\ WF_vars(RunForever)

\* ------------------------------------------------- the focus of the pointer
\* The pointer callbacks on a loop that runs run_forever: between two
\* dispatches the loop runs post_dispatch_triggers and drains the sink (lines
\* 205-212), so the callbacks go on for as long as they are recorded.  The
\* server sends any callback at any time, on a surface of the store (1) or on
\* another one (2).
FocusPositions == {<<3, 4>>, <<5, 6>>}

Call(cb, surface, pos) == [cb |-> cb, surface |-> surface, pos |-> pos]

\* the callback A runs and is recorded with what it pushes into the sink
Recorded(A, call) ==
    /\ Len(trail) < MaxTrail
    /\ A
    /\ trail' = Append(trail, call)
    /\ out' = out \o SubSeq(sink', Len(sink) + 1, Len(sink'))

InitFocus ==
    /\ InitPointer
    /\ mouse_focus = NoWid
    /\ version = 5

NextFocus ==
    \/ \E s \in Surfaces, p \in FocusPositions : Recorded(Enter(s, p), Call("enter", s, p))
    \/ \E s \in Surfaces : Recorded(Leave(s), Call("leave", s, <<0, 0>>))
    \/ \E p \in FocusPositions : Recorded(Motion(p), Call("motion", 0, p))
    \/ Recorded(Button(272, "Pressed"), Call("button", 0, <<0, 0>>))
    \/ Recorded(Axis("Vertical", 2), Call("axis", 0, <<0, 0>>))
    \/ Recorded(Frame, Call("frame", 0, <<0, 0>>))
    \/ DispatchReturn
    \/ PDT_Load
    \/ PDT_CleanupLock
    \/ PDT_Cleanup
    \/ PDT_Windows
    \/ DrainOne("Continue")
    \/ DrainEnd

SpecFocus == InitFocus /\ [][NextFocus]_vars

\* -------------------------------------------------- the seat's capabilities
\* The seat announces capabilities, any set at any time, while poll_events
\* dispatches (line 182); the loop is called again and again.
PollCycle ==
    \/ PollEvents
    \/ DrainEnd
    \/ DispatchReturn
    \/ PDT_Load
    \/ PDT_CleanupLock
    \/ PDT_Cleanup
    \/ PDT_Windows

InitSeat ==
    /\ InitLoop
    /\ InitPointerIData
    /\ version = 5
    /\ InitSeatIData
    /\ InitConstructed

NextSeat ==
    \/ \E caps \in SUBSET Capability : Capabilities(caps)
    \/ PollCycle

SpecSeat == InitSeat /\ [][NextSeat]_vars

\* ------------------------------------------- construction and the registry
\* EventsLoop::new from the connection on (line 113): the server announces
\* and removes globals and the outputs send their events during the round
\* trips and, once the loop is built, while poll_events dispatches.
InitNew ==
    /\ InitLoopAt("new_roundtrip", <<>>)
    /\ pending_wakeup = FALSE
    /\ InitPointerIData
    /\ version = 5
    /\ InitSeatIData
    /\ globals = <<>>
    /\ nGlobals = 0
    /\ shell = NoShell
    /\ seat = NoSeat
    /\ winShell = "None"
    /\ monitors = <<>>
    /\ infos = <<>>
    /\ handles = {}
    /\ atRemoval = {}
    /\ atHandle = {}

NewCalls ==
    \/ NewRoundtrips
    \/ NewEnsureShell
    \/ init_seat

NextContext ==
    \/ \E i \in ShellInterfaces : NewGlobal(i)
    \/ \E id \in 1..MaxGlobals : DelGlobal(id)
    \/ NewCalls
    \/ CreateWindow
    \/ PollCycle

SpecContext == InitNew /\ [][NextContext]_vars

\* the same with a server that advertises outputs and wl_shell
NextMonitors ==
    \/ \E i \in MonitorInterfaces : NewGlobal(i)
    \/ \E id \in 1..MaxGlobals : DelGlobal(id)
    \/ \E o \in 1..MaxGlobals, p \in OutputPositions : OutputGeometry(o, p)
    \/ \E o \in 1..MaxGlobals, c \in BOOLEAN, sz \in OutputSizes : OutputMode(o, c, sz)
    \/ NewCalls
    \/ GetAvailableMonitors
    \/ PollCycle

SpecMonitors == InitNew /\ [][NextMonitors]_vars

\* ------------------------------------------------ the post-dispatch pass
\* poll_events, called again and again, on a loop with two windows that set
\* their flags while it dispatches and whose handles are released at any
\* time; a wakeup() may have stored the flag before the first call.
InitTriggers ==
    /\ InitLoopAt("idle", <<Window(1), Window(2)>>)
    /\ pending_wakeup \in BOOLEAN
    /\ InitPointerIData
    /\ version = 5
    /\ InitContext

NextTriggers ==
    \/ \E i \in 1..2, sz \in WindowSizes : Configure(i, sz)
    \/ \E i \in 1..2 : RequestRefresh(i)
    \/ \E i \in 1..2 : CloseRequested(i)
    \/ \E i \in 1..2 : ReleaseWindow(i)
    \/ PollCycle
    \/ PDT_Clear
    \/ DrainOne("Continue")

SpecTriggers == InitTriggers /\ [][NextTriggers]_vars

\* ----------------------------------------------------------- poll_events
\* poll_events, called again and again: windows push events into the sink at
\* any time, the pointer enters a surface while the call dispatches, and a
\* wakeup() may have stored the flag before the first call.
InitPoll ==
    /\ InitLoopAt("idle", <<Window(1)>>)
    /\ pending_wakeup \in BOOLEAN
    /\ InitPointerIData
    /\ version = 5
    /\ InitContext

NextPoll ==
    \/ \E type \in {"Refresh", "Closed"} : ExternalSend(type, 1)
    \/ \E s \in Surfaces, p \in Positions : Enter(s, p) /\ UNCHANGED focusHist
    \/ PollCycle
    \/ PDT_Clear
    \/ DrainOne("Continue")
    \/ DispatchFail

SpecPoll == InitPoll /\ [][NextPoll]_vars

\* ------------------------------------------------- the pointer's windows
\* The pointer callbacks on a loop in run_forever that has two windows: the
\* server sends any callback at any time, on the surface of either window
\* (1, 2) or on a surface that has none (3).
EnterSurfaces == {1, 2, 3}

InitEnter ==
    /\ InitLoopAt("rf_dispatch", <<Window(1), Window(2)>>)
    /\ pending_wakeup = FALSE
    /\ InitPointerIData
    /\ version = 5
    /\ InitContext

NextEnter ==
    \/ \E s \in EnterSurfaces, p \in Positions : Recorded(Enter(s, p), Call("enter", s, p))
    \/ \E s \in EnterSurfaces : Recorded(Leave(s), Call("leave", s, <<0, 0>>))
    \/ \E p \in Positions : Recorded(Motion(p), Call("motion", 0, p))
    \/ Recorded(Button(272, "Pressed"), Call("button", 0, <<0, 0>>))
    \/ Recorded(Axis("Vertical", 2), Call("axis", 0, <<0, 0>>))
    \/ Recorded(Frame, Call("frame", 0, <<0, 0>>))
    \/ DispatchReturn
    \/ PDT_Load
    \/ PDT_CleanupLock
    \/ PDT_Cleanup
    \/ PDT_Windows
    \/ DrainOne("Continue")
    \/ DrainEnd

SpecEnter == InitEnter /\ [][NextEnter]_vars

\* ------------------------------------------------------------ the buttons
\* The button callbacks of a pointer that enters and leaves the one window
\* of a loop in run_forever: the codes 0x110 to 0x113, pressed and released.
PressedCodes == {272, 273, 274, 275}

ElementStates == {"Pressed", "Released"}

Press(code, state) == [cb |-> "button", code |-> code, state |-> state]

\* the callback A runs; the trail keeps this call alone, with what it pushed
Last(A, call) ==
    /\ A
    /\ trail' = <<call>>
    /\ out' = SubSeq(sink', Len(sink) + 1, Len(sink'))

InitButton ==
    /\ InitPointer
    /\ version = 5

NextButton ==
    \/ \E c \in PressedCodes, st \in ElementStates :
          Last(Button(c, st), Press(c, st))
    \/ \E s \in Surfaces, p \in Positions : Last(Enter(s, p), Call("enter", s, p))
    \/ \E s \in Surfaces : Last(Leave(s), Call("leave", s, <<0, 0>>))
    \/ DispatchReturn
    \/ PDT_Load
    \/ PDT_CleanupLock
    \/ PDT_Cleanup
    \/ PDT_Windows
    \/ DrainOne("Continue")
    \/ DrainEnd

SpecButton == InitButton /\ [][NextButton]_vars

\* ------------------------------------------------------------ the outputs
\* A loop built on a server that advertised wl_shell and one output. The
\* output sent its geometry, the application took a handle to it, and it
\* was unplugged; from there outputs are plugged in and out and send their
\* properties while poll_events dispatches, and the application asks for
\* the monitors between the calls.
UnpluggedInfo ==
    [OutputInfo(2) EXCEPT !.pix_pos = <<10, 0>>, !.name = "make - model"]

InitOutputs ==
    /\ InitLoopAt("idle", <<>>)
    /\ pending_wakeup = FALSE
    /\ InitPointerIData
    /\ version = 5
    /\ InitSeatIData
    /\ globals = <<[name |-> 1, interface |-> "wl_shell"]>>
    /\ nGlobals = 2
    /\ shell = Shell("Wl", 1)
    /\ seat = NoSeat
    /\ winShell = "None"
    /\ monitors = <<>>
    /\ infos = <<UnpluggedInfo>>
    /\ handles = {1}
    /\ atHandle = {<<1, UnpluggedInfo.scale>>}
    /\ atRemoval = {<<1, UnpluggedInfo>>}

NextOutputs ==
    \/ NewGlobal("wl_output")
    \/ \E id \in 1..MaxGlobals : DelGlobal(id)
    \/ \E o \in 1..MaxGlobals, p \in OutputPositions : OutputGeometry(o, p)
    \/ \E o \in 1..MaxGlobals, c \in BOOLEAN, sz \in OutputSizes : OutputMode(o, c, sz)
    \/ \E o \in 1..MaxGlobals, sc \in OutputScales : OutputScale(o, sc)
    \/ GetAvailableMonitors
    \/ PollCycle

SpecOutputs == InitOutputs /\ [][NextOutputs]_vars

\* ============================================================ properties
IsPrefix(s, t) == Len(s) <= Len(t) /\ SubSeq(t, 1, Len(s)) = s

CountAwakened(buf) == Cardinality({i \in 1..Len(buf) : buf[i] = Awakened})

\* ---------------------------------------------------------------- C1
\* C1: when a wakeup() call stores the flag while the loop is blocked in the
\* dispatch of run_forever and returns Ok, the loop unblocks and the next
\* drain delivers an Awakened to the callback, unless the connection is lost
\* and run_forever panics; the batch of that drain, like every batch, holds
\* one Awakened and no more; the pass has cleared the flag before the drain,
\* and with no other wakeup() call the flag is false when the Awakened is
\* delivered and stays false.
C1_WakeupRoundTrip ==
    /\ \A t \in Wakers :
           (wAwait[t] = "waiting" /\ wres[t] = "Ok") ~> (wAwait[t] = "served" \/ pc = "panicked")
    /\ [](\A t \in Wakers :
             wAwait[t] = "waiting" =>
                CASE pc \in {"rf_dispatch", "pdt_load"} -> pending_wakeup
                  [] pc \in {"pdt_clear", "pdt_windows", "pdt_cleanup", "pdt_for_each", "drain"}
                       -> CountAwakened(sink) = 1
                  [] OTHER -> pc = "panicked")
    /\ [](pc = "drain" => CountAwakened(batch) <= 1)
    /\ [][(pc = "pdt_clear" /\ pc' = "pdt_windows") => ~pending_wakeup']_vars
    /\ [](\A t \in Wakers : (wAwait[t] = "served" /\ nStored = 1) => ~pending_wakeup)

\* the drain that follows the blocking dispatch of run_forever has delivered
\* the Awakened of a wakeup() call that returned Ok, and the flag is false
C1_Witness ==
    /\ pc = "drain"
    /\ site = "rf_loop"
    /\ \E t \in Wakers : wAwait[t] = "served" /\ wres[t] = "Ok"
    /\ nStored = 1
    /\ delivered # <<>>
    /\ delivered[Len(delivered)] = Awakened
    /\ ~pending_wakeup

\* C2: a wakeup() call that begins after the EventsLoop has been dropped
\* returns Err(EventsLoopClosed) and does nothing else: it never reaches the
\* store of the flag, the sync request or the flush, and never returns Ok.
C2_LateWakeupIsErr ==
    \A t \in Wakers :
        wLate[t] => /\ wpc[t] \in {"idle", "upgrade_wakeup", "upgrade_wakeup_none"}
                    /\ wres[t] \in {"none", "Err"}

\* ---------------------------------------------------------------- C3
\* C3: once Break has been observed in a drain pass of run_forever, the
\* pre-loop pass included, run_forever makes no further blocking dispatch:
\* it is never in its blocking dispatch with control_flow at Break.
C3_NoDispatchAfterBreak == pc = "rf_dispatch" => control_flow = "Continue"

\* ---------------------------------------------------------------- C4
\* C4: Break does not truncate the batch of a drain pass of run_forever:
\* the pass ends only when every event that was in the sink at its start has
\* been delivered, in order; a recorded Break stays recorded whatever the
\* callback returns later, and the in-loop pass that ends with it recorded
\* returns from run_forever.
C4_BreakKeepsBatch ==
    /\ [][(InRunForever /\ pc = "drain" /\ pc' # "drain")
             => (delivered = batch /\ sink = <<>>)]_vars
    /\ [][(InRunForever /\ control_flow = "Break" /\ pc' # "idle")
             => control_flow' = "Break"]_vars
    /\ [][(site = "rf_loop" /\ pc = "drain" /\ control_flow = "Break" /\ pc' # "drain")
             => pc' = "idle"]_vars

\* a drain pass of run_forever has seen Break with events delivered and
\* events of the batch still to deliver
C4_Witness ==
    /\ pc = "drain"
    /\ InRunForever
    /\ control_flow = "Break"
    /\ delivered # <<>>
    /\ sink # <<>>
    /\ Len(batch) >= 3

\* ---------------------------------------------------------------- C5
\* C5: the sink is a FIFO with destructive drain: a push leaves the events
\* already buffered in place and in front; during a drain the events
\* delivered so far followed by the events still buffered are the buffer as
\* it was when the drain began, so each is delivered once and in push
\* order; and the buffer is empty when the drain ends.
C5_SinkFifo ==
    /\ [](pc = "drain" => delivered \o sink = batch)
    /\ [][pc # "drain" => IsPrefix(sink, sink')]_vars
    /\ [][(pc = "drain" /\ sink' # sink)
             => (sink' = Tail(sink) /\ delivered' = Append(delivered, Head(sink)))]_vars
    /\ [][(pc = "drain" /\ pc' # "drain") => (sink = <<>> /\ sink' = <<>>)]_vars

\* a drain of a buffer that held an Awakened pushed behind pointer events has
\* delivered the pointer events and is about to deliver the Awakened
C5_Witness ==
    /\ pc = "drain"
    /\ Len(batch) >= 3
    /\ batch[Len(batch)] = Awakened
    /\ batch[1].type = "MouseEntered"
    /\ Len(delivered) = 2
    /\ sink = <<Awakened>>

FrameClosesBatch == nAxis > 0 /\ nAxis' = 0
\* an axis or axis_discrete callback runs
AxisDeltaRuns == nAxis' = nAxis + 1
\* the pointer accumulates continuous values: it is focused and of a version
\* with frame (lines 618 and 620)
Accumulates == mouse_focus # NoWid /\ version >= 5

\* C7: the frame callback that follows a sequence of axis and axis_discrete
\* callbacks on a focused pointer pushes one wheel event whose delta is the
\* sum of the discrete values since the last frame if there was any discrete
\* callback, and else (on a pointer that accumulates) the sum of the
\* continuous values since the last frame, horizontal values kept and
\* vertical values negated; it pushes nothing without focus; and both
\* buffers are empty after every frame callback.
C7_FrameDelta ==
    /\ [][FrameClosesBatch =>
            /\ axis_buffer' = None
            /\ axis_discrete_buffer' = None
            /\ (mouse_focus # NoWid /\ nDisc > 0) =>
                   /\ Len(sink') = Len(sink) + 1
                   /\ SubSeq(sink', 1, Len(sink)) = sink
                   /\ sink'[Len(sink')].type = "MouseWheel"
                   /\ sink'[Len(sink')].kind = "LineDelta"
                   /\ sink'[Len(sink')].x = rawDH
                   /\ sink'[Len(sink')].y = -rawDV
            /\ (Accumulates /\ steady /\ nDisc = 0) =>
                   /\ Len(sink') = Len(sink) + 1
                   /\ SubSeq(sink', 1, Len(sink)) = sink
                   /\ sink'[Len(sink')].type = "MouseWheel"
                   /\ sink'[Len(sink')].kind = "PixelDelta"
                   /\ sink'[Len(sink')].x = rawH
                   /\ sink'[Len(sink')].y = -rawV
            /\ mouse_focus = NoWid => sink' = sink]_vars
    /\ [](nAxis = 0 => (axis_buffer = None /\ axis_discrete_buffer = None))

\* a frame has pushed the sum of a horizontal 2 and a vertical -1 of a
\* pointer of version 5 and left both buffers empty
C7_Witness ==
    /\ version = 5
    /\ nAxis = 0
    /\ axis_buffer = None
    /\ axis_discrete_buffer = None
    /\ sink # <<>>
    /\ sink[Len(sink)].type = "MouseWheel"
    /\ sink[Len(sink)].kind = "PixelDelta"
    /\ sink[Len(sink)].x = 2
    /\ sink[Len(sink)].y = 1

\* ---------------------------------------------------------------- C8
\* C8: a frame callback on a focused pointer whose two buffers both hold
\* data pushes exactly one wheel event, the LineDelta of the discrete
\* buffer, and empties the continuous buffer, so that the continuous buffer
\* never holds data from before the last frame.
C8_DiscretePriority ==
    /\ [][(FrameClosesBatch /\ mouse_focus # NoWid
              /\ axis_buffer # None /\ axis_discrete_buffer # None) =>
            /\ sink' = Append(sink, [MouseWheel("LineDelta", axis_discrete_buffer, axis_state)
                                        EXCEPT !.wid = mouse_focus])
            /\ axis_buffer' = None
            /\ axis_discrete_buffer' = None
            /\ discarded']_vars
    /\ [](axis_buffer # None => nAxis > nDisc)
    /\ [](discarded => \E i \in 1..Len(sink) : sink[i].kind = "LineDelta")

\* the last frame found both buffers filled on a focused pointer, pushed the
\* LineDelta and left nothing of the continuous data
C8_Witness ==
    /\ discarded
    /\ nAxis = 0
    /\ axis_buffer = None
    /\ sink # <<>>
    /\ sink[Len(sink)].kind = "LineDelta"
    /\ Len(SelectSeq(sink, LAMBDA e : e.type = "MouseWheel")) = 1

\* ---------------------------------------------------------------- C9
\* C9 as stated, for the pointers that receive axis_stop (version 5 or
\* more): the frame that follows an axis_stop pushes its wheel event with
\* phase Ended, and any axis callback, continuous or discrete, that follows
\* an axis_stop sets the phase to Started.
C9_AnyAxisRestarts ==
    [][/\ (stopped /\ FrameClosesBatch /\ Len(sink') > Len(sink))
             => sink'[Len(sink')].phase = "Ended"
       /\ (stopped /\ AxisDeltaRuns /\ version >= 5) => axis_state' = "Started"]_vars

\* C9 amended: the frame that follows an axis_stop pushes its wheel event
\* with phase Ended; an axis_discrete callback that follows an axis_stop,
\* and a continuous axis callback that follows it on a focused pointer of
\* version 5 or more, sets the phase to Started; a continuous axis callback
\* on a pointer without focus or of a lower version leaves it at Ended.
C9_PhaseSequencing ==
    /\ [](stopped => axis_state = "Ended")
    /\ [][/\ (stopped /\ FrameClosesBatch /\ Len(sink') > Len(sink))
                => sink'[Len(sink')].phase = "Ended"
          /\ (stopped /\ AxisDeltaRuns /\ (nDisc' = nDisc + 1 \/ Accumulates))
                => axis_state' = "Started"
          /\ (stopped /\ AxisDeltaRuns /\ nDisc' = nDisc /\ ~Accumulates)
                => axis_state' = "Ended"]_vars

\* on a focused pointer of version 5 the second axis callback of a batch has
\* set the phase to Started: an axis_stop ran between the two
C9_Witness ==
    /\ version = 5
    /\ mouse_focus # NoWid
    /\ steady
    /\ nAxis = 2
    /\ ~stopped
    /\ axis_state = "Started"

\* --------------------------------------------------------------- C10
\* C10 as stated: every axis or axis_discrete callback, in any focus state
\* and for any pointer version, moves the phase to Moved from Started or
\* Moved and to Started from Ended or Cancelled.
C10_EveryAxisMovesPhase ==
    [][AxisDeltaRuns
          => axis_state' = IF axis_state \in {"Started", "Moved"} THEN "Moved" ELSE "Started"]_vars

\* C10 amended: every axis_discrete callback, and every continuous axis
\* callback on a focused pointer of version 5 or more, moves the phase to
\* Moved from Started or Moved and to Started from Ended or Cancelled; a
\* continuous axis callback on a pointer without focus or of a lower version
\* leaves the phase as it is; axis_stop sets it to Ended; no other callback
\* changes it.
C10_PhaseTransitions ==
    /\ [][/\ (AxisDeltaRuns /\ (nDisc' = nDisc + 1 \/ Accumulates))
                => axis_state' = IF axis_state \in {"Started", "Moved"} THEN "Moved" ELSE "Started"
          /\ (AxisDeltaRuns /\ nDisc' = nDisc /\ ~Accumulates) => axis_state' = axis_state
          /\ (~stopped /\ stopped') => axis_state' = "Ended"
          /\ (~AxisDeltaRuns /\ ~(~stopped /\ stopped')) => axis_state' = axis_state]_vars
    /\ [](stopped => axis_state = "Ended")
    /\ axis_state = "Cancelled"

\* the phase has gone from Cancelled to Started to Moved on two axis
\* callbacks of a batch, the second continuous on a focused pointer
C10_Witness ==
    /\ version = 5
    /\ mouse_focus # NoWid
    /\ steady
    /\ nAxis = 2
    /\ nDisc <= 1
    /\ axis_buffer # None
    /\ axis_state = "Moved"

\* ---------------------------------------------------------------------
\* C11: when the callbacks so far are an enter on a surface of the store at
\* p0, then motions, then possibly the leave of that surface followed by
\* motion, button, axis and frame callbacks only, the events pushed are
\* exactly MouseEntered, MouseMoved(p0), one MouseMoved per motion before the
\* leave, and MouseLeft once the leave has run: nothing after it.
FocusEv(type, wid, pos) == Ev(type, wid, pos[1], pos[2], "", "")

MovedOf(wid, calls) == [i \in 1..Len(calls) |-> FocusEv("MouseMoved", wid, calls[i].pos)]

Motions(from, to) == \A i \in from..to : trail[i].cb = "motion"

C12_HandlerIffAnnounced ==
    nCaps > 0 =>
       /\ seat_pointer # NoObject <=> "Pointer" \in lastCaps
       /\ seat_keyboard # NoObject <=> "Keyboard" \in lastCaps
       /\ ObjectsOf("pointer", live) =
             IF "Pointer" \in lastCaps THEN {SeatObject("pointer", seat_pointer)} ELSE {}
       /\ ObjectsOf("keyboard", live) =
             IF "Keyboard" \in lastCaps THEN {SeatObject("keyboard", seat_keyboard)} ELSE {}

\* a pointer was created, released on an announcement without the flag, and
\* created again; the keyboard went the other way
C12_Witness ==
    /\ nCaps = 3
    /\ "Pointer" \in lastCaps /\ seat_pointer # NoObject
    /\ "Keyboard" \notin lastCaps /\ seat_keyboard = NoObject
    /\ Cardinality(ObjectsOf("pointer", requested)) = 2
    /\ Cardinality(ObjectsOf("keyboard", requested)) = 1
    /\ live = {SeatObject("pointer", seat_pointer)}

\* ---------------------------------------------------------------------
\* C13: an announcement with the Pointer flag that follows one with the
\* Pointer flag requests no pointer and releases none, and leaves
\* SeatIData.pointer as it is; the same for the keyboard; an announcement
\* of a flag with no object of the kind requests exactly one; at most one
\* pointer and at most one keyboard are live at any time.
Announces == nCaps' = nCaps + 1

Repeats(flag) == Announces /\ nCaps > 0 /\ flag \in lastCaps /\ flag \in lastCaps'

Untouched(kind) ==
    /\ ObjectsOf(kind, requested') = ObjectsOf(kind, requested)
    /\ ObjectsOf(kind, live') = ObjectsOf(kind, live)

C13_Idempotent ==
    /\ [](Cardinality(ObjectsOf("pointer", live)) <= 1)
    /\ [](Cardinality(ObjectsOf("keyboard", live)) <= 1)
    /\ [][Repeats("Pointer") => (Untouched("pointer") /\ seat_pointer' = seat_pointer)]_vars
    /\ [][Repeats("Keyboard") => (Untouched("keyboard") /\ seat_keyboard' = seat_keyboard)]_vars
    /\ [][(Announces /\ "Pointer" \in lastCaps' /\ seat_pointer = NoObject)
             => Cardinality(ObjectsOf("pointer", requested')) =
                   Cardinality(ObjectsOf("pointer", requested)) + 1]_vars

\* two announcements, both with the Pointer flag, and one pointer requested
C13_Witness ==
    /\ nCaps = 2
    /\ "Pointer" \in lastCaps
    /\ Cardinality(ObjectsOf("pointer", requested)) = 1
    /\ live = {SeatObject("pointer", seat_pointer)}

\* ---------------------------------------------------------------------
\* C14: once StateContext.shell is Some(v) no step changes it, whatever
\* globals are announced or removed afterwards; once StateContext.seat is
\* Some no step changes it.
C14_ShellNeverRebound ==
    /\ [][shell # NoShell => shell' = shell]_vars
    /\ [][seat # NoSeat => seat' = seat]_vars

\* ---------------------------------------------------------------------
\* C15: the ensure_shell of EventsLoop::new keeps a shell bound during the
\* enumeration; with none bound it binds an advertised wl_shell; with none
\* advertised either it panics.  So the loop is never built without a
\* shell, and create_window, which runs on a built loop only, finds a shell.
Names(gl, interface) == {gl[i].name : i \in {j \in 1..Len(gl) : gl[j].interface = interface}}

Built == pc \notin {"new_roundtrip", "new_ensure_shell", "panicked"}

C15_ShellNegotiation ==
    /\ [][pc = "new_ensure_shell" /\ pc' # pc =>
             IF shell # NoShell
             THEN shell' = shell /\ shell.variant = "Xdg" /\ pc' = "new_init_seat"
             ELSE IF Names(globals, "wl_shell") # {}
                  THEN /\ shell'.variant = "Wl"
                       /\ shell'.name \in Names(globals, "wl_shell")
                       /\ pc' = "new_init_seat"
                  ELSE pc' = "panicked" /\ shell' = NoShell]_vars
    /\ [](Built => shell # NoShell)
    /\ [](winShell # "None" => Built \/ pc = "panicked")
    /\ [](pc = "idle" => shell.variant \in {"Wl", "Xdg"})

\* the server advertised wl_shell and then zxdg_shell_v6 before the loop was
\* built: the loop has the xdg shell and create_window has used it
C15_Witness ==
    /\ pc = "idle"
    /\ site = "none"
    /\ Names(globals, "wl_shell") # {}
    /\ shell.variant = "Xdg"
    /\ winShell = "Xdg"

\* ---------------------------------------------------------------------
\* C16: a del_global for id X leaves in monitors exactly the entries whose
\* id is not X, in the order they had; so every entry get_available_monitors
\* sees belongs to a global that is still advertised; and an OutputInfo
\* dropped from monitors keeps, for the MonitorId handles that share it, the
\* values it had when it was dropped.
Removes(id) ==
    /\ id \in Range([i \in 1..Len(globals) |-> globals[i].name])
    /\ id \notin Range([i \in 1..Len(globals') |-> globals'[i].name])

C16_MonitorRemoval ==
    /\ [][\A id \in 1..nGlobals :
             Removes(id) =>
                /\ \A r \in Range(monitors') : infos'[r].id # id
                /\ monitors' = SelectSeq(monitors, LAMBDA r : infos[r].id # id)]_vars
    /\ [](\A r \in Range(monitors) : infos[r].id \in Names(globals, "wl_output"))
    /\ [](\A e \in atRemoval : e[1] \notin Range(monitors) /\ infos[e[1]] = e[2])

\* two outputs; a handle was taken for both; the first, which had its mode,
\* was removed while the loop dispatched, and the second is still listed
C16_Witness ==
    /\ Len(infos) = 2
    /\ monitors = <<2>>
    /\ handles = {1, 2}
    /\ atRemoval # {}
    /\ infos[1].pix_size # <<0, 0>>
    /\ infos[2].pix_pos # <<0, 0>>
    /\ site = "pe_post"

\* ---------------------------------------------------------------------
\* C17: the for_each step of a pass pushes, for every window of the store,
\* Resized when the window has a pending size and a live decorated surface,
\* then Refresh when its refresh flag is set, then Closed when its closed
\* flag is set, and nothing else; when Resized is pushed the surface has the
\* new size, and otherwise the size it had.
WindowEv(type, w) ==
    IF type = "Resized"
    THEN Ev("Resized", w.wid, w.newsize[1], w.newsize[2], "", "")
    ELSE Ev(type, w.wid, 0, 0, "", "")

Resizes(w) == w.newsize # None /\ w.decorated

ExpectedFor(w) ==
    (IF Resizes(w) THEN <<WindowEv("Resized", w)>> ELSE <<>>)
       \o (IF w.refresh THEN <<WindowEv("Refresh", w)>> ELSE <<>>)
       \o (IF w.closed THEN <<WindowEv("Closed", w)>> ELSE <<>>)

Pushed == SubSeq(sink', Len(sink) + 1, Len(sink'))

ForEachStep == pc = "pdt_for_each" /\ pc' = "drain"

C17_WindowEventOrder ==
    [][ForEachStep =>
          /\ IsPrefix(sink, sink')
          /\ \A i \in 1..Len(store) :
                /\ SelectSeq(Pushed, LAMBDA e : e.wid = store[i].wid) = ExpectedFor(store[i])
                /\ store'[i].size = IF Resizes(store[i]) THEN store[i].newsize ELSE store[i].size
          /\ \A k \in 1..Len(Pushed) : \E i \in 1..Len(store) : Pushed[k].wid = store[i].wid]_vars

\* the pass has pushed Resized, Refresh and Closed for window 1, whose
\* surface has the new size, and only Refresh for a window with a pending
\* size and no decorated surface
C17_Witness ==
    /\ pc = "drain"
    /\ site = "pe_post"
    /\ delivered = <<>>
    /\ Len(store) = 2
    /\ store[1].size = <<640, 480>>
    /\ store[2].dead /\ store[2].size = <<0, 0>>
    /\ [i \in 1..Len(batch) |-> <<batch[i].type, batch[i].wid>>] =
          << <<"Resized", 1>>, <<"Refresh", 1>>, <<"Closed", 1>>, <<"Refresh", 2>> >>

\* ---------------------------------------------------------------------
\* C18: the steps of post_dispatch_triggers follow one another in one order:
\* the flag is loaded and, when set, Awakened is pushed and the flag cleared;
\* then cleanup_needed is locked and, when set, the dead windows are pruned
\* and it is cleared; then the window flags are turned into events, for
\* windows of the pruned store only.  Window events are pushed by that last
\* step alone, so in the batch that follows no Awakened comes after one.
IsWindowEv(e) == e.type \in {"Resized", "Refresh", "Closed"}

LoopMoves(from) == pc = from /\ pc' # pc

C18_TriggerOrder ==
    /\ [][LoopMoves("pdt_load") =>
             /\ pc' = IF pending_wakeup THEN "pdt_clear" ELSE "pdt_windows"
             /\ sink' = IF pending_wakeup THEN Append(sink, Awakened) ELSE sink
             /\ store' = store]_vars
    /\ [][LoopMoves("pdt_clear") =>
             pc' = "pdt_windows" /\ ~pending_wakeup' /\ sink' = sink /\ store' = store]_vars
    /\ [][LoopMoves("pdt_windows") =>
             pc' = "pdt_cleanup" /\ sink' = sink /\ store' = store]_vars
    /\ [][LoopMoves("pdt_cleanup") =>
             /\ pc' = "pdt_for_each"
             /\ ~cleanup_needed'
             /\ sink' = sink
             /\ store' = IF cleanup_needed THEN SelectSeq(store, LAMBDA w : ~w.dead) ELSE store]_vars
    /\ [][LoopMoves("pdt_for_each") =>
             /\ pc' = "drain"
             /\ IsPrefix(sink, sink')
             /\ \A k \in 1..Len(Pushed) :
                   /\ IsWindowEv(Pushed[k])
                   /\ \E i \in 1..Len(store) : Pushed[k].wid = store[i].wid
                   /\ \A w \in pruned : Pushed[k].wid # w.wid]_vars
    /\ [][(\E k \in (Len(sink) + 1)..Len(sink') : IsWindowEv(sink'[k])) => pc = "pdt_for_each"]_vars
    /\ [](pc = "drain" =>
             \A i \in 1..Len(batch) : \A j \in 1..Len(batch) :
                 (IsWindowEv(batch[i]) /\ batch[j] = Awakened) => j < i)

\* a pass has pushed Awakened, pruned a dead window that had a pending flag,
\* and pushed the events of the window that is left
C18_Witness ==
    /\ pc = "drain"
    /\ site = "pe_post"
    /\ delivered = <<>>
    /\ Len(batch) >= 2
    /\ batch[1] = Awakened
    /\ \E w \in pruned : w.refresh
    /\ Len(store) = 1
    /\ \A i \in 2..Len(batch) : IsWindowEv(batch[i]) /\ batch[i].wid = store[1].wid

\* ---------------------------------------------------------------------
\* C19: the first drain of poll_events gives the callback the events the
\* sink held at the call, oldest first and all of them, before the call
\* dispatches; the dispatch returns whether or not a callback has run; the
\* post-dispatch triggers run once, after it; the second drain gives the
\* callback what the sink then holds, oldest first; and the call returns
\* from that drain with the sink empty.
InPoll == site \in {"pe_pre", "pe_post"} /\ pc \notin {"idle", "panicked"}

C19_PollEvents ==
    /\ [][pc = "idle" /\ pc' = "drain" => site' = "pe_pre" /\ batch' = sink /\ sink' = sink]_vars
    /\ [](pc = "drain" => delivered \o sink = batch)
    /\ [][pc = "drain" /\ site = "pe_pre" /\ pc' # pc =>
             pc' = "pe_dispatch" /\ delivered = batch /\ sink = <<>>]_vars
    /\ [](pc = "pe_dispatch" /\ connOk => ENABLED DispatchReturn)
    /\ [](InPoll => pc # "rf_dispatch")
    /\ [][LoopMoves("pe_dispatch") =>
             pc' = "panicked" \/ (pc' = "pdt_load" /\ site' = "pe_post")]_vars
    /\ [][pc = "pdt_load" /\ InPoll => site = "pe_post"]_vars
    /\ [][pc = "pdt_for_each" /\ InPoll /\ pc' # pc => pc' = "drain" /\ site' = "pe_post"]_vars
    /\ [][pc = "drain" /\ site = "pe_post" /\ pc' # pc =>
             pc' = "idle" /\ delivered = batch /\ sink = <<>> /\ sink' = <<>>]_vars

\* the first drain of a call has given the callback the two events the sink
\* held at the call, in the order they were pushed
C19_Witness ==
    /\ pc = "drain"
    /\ site = "pe_pre"
    /\ Len(batch) = 2
    /\ batch[1].type = "Closed" /\ batch[2].type = "Refresh"
    /\ delivered = batch
    /\ sink = <<>>

\* ---------------------------------------------------------------------
\* C20: the loop thread never holds the sink mutex and the cleanup_needed
\* mutex together, and holds neither while it is in a dispatch.
C20_LocksNotNested ==
    /\ ~(sink_lock = "loop" /\ cleanup_lock = "loop")
    /\ InDispatch => (sink_lock = "free" /\ cleanup_lock = "free")

\* C21: a geometry, mode or scale callback writes the OutputInfo of the
\* output in place, so a MonitorId handed out before reads the new value; a
\* mode that is not the current one changes nothing; and a callback of an
\* output that del_global dropped from monitors changes no OutputInfo, so
\* the handles to a dropped output keep reading the values it had.
SameBut(inf, fields, r) ==
    /\ Len(inf) = Len(infos)
    /\ \A q \in 1..Len(infos) : q # r => inf[q] = infos[q]
    /\ \A f \in DOMAIN infos[r] \ fields : inf[r][f] = infos[r][f]

C21_OutputCallbacks ==
    /\ [](\A o \in 1..Len(infos) :
            /\ \A sz \in OutputSizes : output_mode(infos, monitors, o, FALSE, sz) = infos
            /\ o \notin Range(monitors) =>
                 /\ \A p \in OutputPositions : output_geometry(infos, monitors, o, p) = infos
                 /\ \A sz \in OutputSizes : output_mode(infos, monitors, o, TRUE, sz) = infos
                 /\ \A sc \in OutputScales : output_scale(infos, monitors, o, sc) = infos
            /\ o \in Range(monitors) =>
                 /\ \A p \in OutputPositions :
                      LET inf == output_geometry(infos, monitors, o, p)
                      IN  /\ inf[o].pix_pos = p
                          /\ SameBut(inf, {"pix_pos", "name"}, o)
                 /\ \A sz \in OutputSizes :
                      LET inf == output_mode(infos, monitors, o, TRUE, sz)
                      IN  /\ inf[o].pix_size = sz
                          /\ SameBut(inf, {"pix_size"}, o)
                 /\ \A sc \in OutputScales :
                      LET inf == output_scale(infos, monitors, o, sc)
                      IN  /\ inf[o].scale = sc
                          /\ SameBut(inf, {"scale"}, o))
    /\ [][\A r \in 1..Len(infos) : r \notin Range(monitors) => infos'[r] = infos[r]]_vars
    /\ [][handles \subseteq handles' /\ atHandle \subseteq atHandle']_vars
    /\ [](\A e \in atRemoval : infos[e[1]] = e[2])

\* the application took a handle to the second output when its scale was 1;
\* the output then sent scale 2 and its current mode, which the handle
\* reads; it was unplugged, and the loop is dispatching again
C21_Witness ==
    /\ Len(infos) = 2
    /\ monitors = <<>>
    /\ 2 \in handles
    /\ <<2, 1>> \in atHandle
    /\ infos[2].scale = 2
    /\ infos[2].pix_size \in OutputSizes
    /\ <<2, infos[2]>> \in atRemoval
    /\ infos[1] = UnpluggedInfo
    /\ pc = "pe_dispatch"
    /\ dispatched

\* C22: a button callback pushes one MouseInput, for the focused window, when
\* the pointer has a focus and the code is 0x110 (Left), 0x111 (Right) or
\* 0x112 (Middle), with the state the callback got; with any other code, or
\* without a focus, it pushes nothing; and it leaves the pointer's own state
\* as it was.
Pressing(call) ==
    /\ InDispatch
    /\ pc' = pc
    /\ trail' = <<call>>

C22_Button ==
    [][\A c \in PressedCodes, st \in ElementStates :
          Pressing(Press(c, st)) =>
             LET known == c \in {272, 273, 274}
                 name == CASE c = 272 -> "Left"
                           [] c = 273 -> "Right"
                           [] c = 274 -> "Middle"
                           [] OTHER -> "?"
             IN  /\ (mouse_focus # NoWid /\ known) =>
                       Pushed = <<Ev("MouseInput", mouse_focus, 0, 0, st, name)>>
                 /\ (mouse_focus = NoWid \/ ~known) => sink' = sink
                 /\ pointerVars' = pointerVars]_vars

\* the middle button was released over the window: the sink holds the one
\* MouseInput of it
C22_Witness ==
    /\ trail = <<Press(274, "Released")>>
    /\ mouse_focus = 1
    /\ out = <<Ev("MouseInput", 1, 0, 0, "Released", "Middle")>>
    /\ sink = out
    /\ pc = "rf_dispatch"

\* C23: no wakeup is lost.  From the store of the flag by a wakeup() call
\* until an Awakened is delivered to the callback, the flag is set or an
\* Awakened waits in the sink, wherever the loop was when the flag was stored
\* (not yet in run_forever, between the load and the clear of a pass, blocked
\* in dispatch); a call that returned Ok is followed by the delivery of an
\* Awakened as long as the loop is kept and its connection holds; and the
\* loop does not stay blocked in dispatch while the flag is set.
Unserved(t) == wAwait[t] \in {"stored", "waiting"}

LoopGone == pc \in {"panicked", "dropping", "dropped"}

C23_NoLostWakeup ==
    /\ [](\A t \in Wakers :
            Unserved(t) => (pending_wakeup \/ CountAwakened(sink) >= 1))
    /\ \A t \in Wakers :
          (Unserved(t) /\ wres[t] = "Ok") ~> (~Unserved(t) \/ LoopGone)
    /\ (pc = "rf_dispatch" /\ pending_wakeup) ~> (pc # "rf_dispatch")

\* two wakeup() calls stored the flag and returned Ok, one pass turned the
\* flag into one Awakened, and the drain of that pass has delivered it to the
\* callback after both stores
C23_Witness ==
    /\ \A t \in Wakers : wres[t] = "Ok" /\ wAwait[t] \in {"seen", "served"}
    /\ nStored = 2
    /\ nAwakened = 1
    /\ pc = "drain"
    /\ ~pending_wakeup
    /\ delivered # <<>>
    /\ delivered[Len(delivered)] = Awakened

\* C24: a wakeup() call that has returned Err(EventsLoopClosed) has not
\* stored the flag, and so no Awakened was delivered for it; the flush
\* failing on a live loop is one way to the Err.
C24_ErrLeavesFlag ==
    \A t \in Wakers : wres[t] = "Err" => wAwait[t] = "no"

\* C25: every MouseMoved, MouseInput and MouseWheel the pointer pushes has
\* the window of the surface of the most recent enter callback, and none is
\* pushed when the most recent enter or leave callback was a leave, or an
\* enter on a surface that has no window.
PointerEvents == {"MouseMoved", "MouseInput", "MouseWheel"}

\* the place in the calls of the last enter or leave, 0 when there is none
LastFocusCall(calls) ==
    LET idx == {i \in 1..Len(calls) : calls[i].cb \in {"enter", "leave"}}
    IN  IF idx = {} THEN 0 ELSE CHOOSE i \in idx : \A j \in idx : j <= i

C25_EventsOfLastEnter ==
    [][trail' # trail =>
         LET k == LastFocusCall(trail')
             w == IF k = 0 \/ trail'[k].cb = "leave"
                  THEN NoWid
                  ELSE find_wid(store, trail'[k].surface)
         IN  \A i \in 1..Len(Pushed) :
                Pushed[i].type \in PointerEvents => (w # NoWid /\ Pushed[i].wid = w)]_vars

\* C25, amended: every MouseMoved, MouseInput and MouseWheel the pointer
\* pushes has the window of the focus, which is the window of the most
\* recent enter on a surface that has a window, as long as no leave came
\* after it; and none is pushed without such an enter.  An enter on a
\* surface that has no window pushes nothing and leaves the focus as it was.
LastFocusChange(calls) ==
    LET idx == {i \in 1..Len(calls) :
                   \/ calls[i].cb = "leave"
                   \/ calls[i].cb = "enter" /\ find_wid(store, calls[i].surface) # NoWid}
    IN  IF idx = {} THEN 0 ELSE CHOOSE i \in idx : \A j \in idx : j <= i

C25_EventsOfFocus ==
    [][trail' # trail =>
         LET k == LastFocusChange(trail')
             call == trail'[Len(trail')]
             w == IF k = 0 \/ trail'[k].cb = "leave"
                  THEN NoWid
                  ELSE find_wid(store, trail'[k].surface)
         IN  /\ mouse_focus' = w
             /\ \A i \in 1..Len(Pushed) :
                   Pushed[i].type \in PointerEvents => (w # NoWid /\ Pushed[i].wid = w)
             /\ (call.cb = "enter" /\ find_wid(store, call.surface) = NoWid) =>
                   (Pushed = <<>> /\ mouse_focus' = mouse_focus)]_vars

\* the pointer entered the first window, then the second, then a surface
\* without a window, with no leave; the motion that followed pushed its
\* MouseMoved for the second window, which still has the focus
C25_Witness ==
    /\ Len(trail) = 4
    /\ trail[1].cb = "enter" /\ find_wid(store, trail[1].surface) = 1
    /\ trail[2].cb = "enter" /\ find_wid(store, trail[2].surface) = 2
    /\ trail[3].cb = "enter" /\ find_wid(store, trail[3].surface) = NoWid
    /\ trail[4].cb = "motion"
    /\ Len(out) = 5
    /\ out[5].type = "MouseMoved" /\ out[5].wid = 2
    /\ mouse_focus = 2

====
